---- MODULE Spec2Model ----
(***************************************************************************)
(* Retrieval core of the local notes RAG application:                      *)
(*   chat_app.py : chunk_text, load_notes, create_embeddings, search_notes *)
(*                 query_ollama, create_rag_prompt, main (loading, reload, *)
(*                 chat turn)                                              *)
(*   search.py   : search_and_summarize, create_summarization_prompt       *)
(*   sources.py  : extract_wikilinks, resolve_wikilink, is_daily_note,     *)
(*                 organize_sources_by_type, render_daily_note_content,    *)
(*                 render_daily_entry_card, render_linked_viewer and the   *)
(*                 session state of the sources tab                        *)
(* Similarity scores are integers in hundredths (0.10 is 10).  Texts are   *)
(* sequences of one-character strings.                                     *)
(***************************************************************************)
EXTENDS Integers, Sequences, FiniteSets, TLC

VARIABLES
    notes,          \* processed_notes: the chunk records handed to the searches
    embeddings,     \* the embedding matrix, one row per chunk record
    sortOrder,      \* np.argsort of the similarity vector, per query
    op,             \* the last search request: name, query, top_k
    results,        \* search_notes' return value / the outcome's "sources"
    summary,        \* the kind of the outcome's "summary" text
    encodeCalls,    \* model.encode([query]) calls made by the last request
    generateCalls,  \* ollama.chat calls made by the last request
    text,           \* chunk_text's text: the body of the file being loaded
    header,         \* the metadata parsed from the file's header block
    maxLength,      \* chunk_text's max_length
    chunks,         \* chunk_text's return value
    records,        \* the chunk records load_notes appends for the file
    loaded,         \* whether the file has been chunked and its records built
    wikilink,       \* resolve_wikilink's wikilink: the selected link text
    resolution,     \* resolve_wikilink's outcome: a path, None or an exception
    content,        \* extract_wikilinks' content
    wikilinks,      \* extract_wikilinks' return value
    extracted,      \* whether extract_wikilinks has returned
    path,           \* is_daily_note's file_path
    dailyVerdict,   \* is_daily_note's return value, pending before the call
    sourcesByType,  \* organize_sources_by_type's return value
    organized,      \* whether organize_sources_by_type has returned
    disk,           \* the files under the notes folder, as reading and parsing finds them
    listing,        \* the order in which the folder's entries are scanned
    loadCache,      \* st.cache_data's entry for load_notes(notes_folder)
    errors,         \* the files st.error reported during the load shown
    served,         \* how the last load_notes call was served: computed or cached
    sinceLoad,      \* whether a file changed since load_notes was last called
    embedCache,     \* st.cache_data's entries for create_embeddings, keyed by notes
    question,       \* the question or query handed to the prompt builders
    relevantNotes,  \* the ranked results handed to the prompt builders
    prompt,         \* the prompt built last, as a sequence of text pieces
    promptKind,     \* which builder built it: rag, summary or none
    dailyContent,   \* render_daily_note_content's content, as its lines
    cards,          \* the render_daily_entry_card calls made, in order
    rendered,       \* whether render_daily_note_content has returned
    session         \* st.session_state: the keys set, with their values

searchVars == <<notes, embeddings, sortOrder, op, results, summary,
                encodeCalls, generateCalls>>

chunkVars == <<text, header, maxLength, chunks, records, loaded>>

linkVars == <<wikilink, resolution>>

extractVars == <<content, wikilinks, extracted>>

dailyVars == <<path, dailyVerdict>>

organizeVars == <<sourcesByType, organized>>

loadVars == <<disk, listing, loadCache, errors, served, sinceLoad>>

embedVars == <<embedCache>>

promptVars == <<question, relevantNotes, prompt, promptKind>>

entryVars == <<dailyContent, cards, rendered>>

sessionVars == <<session>>

vars == <<searchVars, chunkVars, linkVars, extractVars,
         dailyVars,
         organizeVars,
         loadVars,
         embedVars,
         promptVars,
         entryVars,
         sessionVars>>

-----------------------------------------------------------------------------
(* Bounds *)

MaxNotes == 3       \* chunk records in the corpus
MaxTopK == 3        \* largest top_k requested

MaxTextLen == 5     \* characters in a file body
MaxChunkLen == 4    \* largest max_length given to chunk_text
MaxLinkNotes == 3   \* chunk records handed to resolve_wikilink
MaxTokens == 5      \* pieces a content given to extract_wikilinks is made of
MaxPathTokens == 5  \* pieces a relative path is made of
MaxSourceNotes == 3 \* chunk records handed to organize_sources_by_type
MaxRanked == 2      \* ranked results handed to a prompt builder
MaxDailyLines == 4  \* lines of a daily note

(* Program constants *)

Threshold == 10     \* 0.1, in hundredths
MaxHeadingLevel == 6    \* #{1,6}

-----------------------------------------------------------------------------
(* Generic sequence helpers *)

Range(f) == {f[i] : i \in DOMAIN f}

Min(a, b) == IF a < b THEN a ELSE b

Max(a, b) == IF a > b THEN a ELSE b

SeqsUpTo(S, n) == UNION {[1..m -> S] : m \in 0..n}

Reverse(s) == [i \in 1..Len(s) |-> s[Len(s) + 1 - i]]

Perms(n) == {p \in [1..n -> 1..n] : \A i, j \in 1..n : i # j => p[i] # p[j]}

-----------------------------------------------------------------------------
(* Embedding model and cosine similarity (external collaborators) *)

Queries == {"q1", "q2"}

Contents == {"c1", "c2", "c3"}

\* model.encode: deterministic, one vector per text; the vector is named by
\* the text it encodes.
Encode(t) == <<"vec", t>>

\* cosine_similarity of a query vector and a chunk vector, in hundredths.
Cosine(qv, cv) ==
    CASE qv = Encode("q1") /\ cv = Encode("c1") -> 10
      [] qv = Encode("q1") /\ cv = Encode("c2") -> 11
      [] qv = Encode("q1") /\ cv = Encode("c3") -> 70
      [] qv = Encode("q2") /\ cv = Encode("c1") -> 55
      [] qv = Encode("q2") /\ cv = Encode("c2") -> 55
      [] qv = Encode("q2") /\ cv = Encode("c3") -> 0 - 30
      [] qv = Encode("q1") /\ cv = Encode(<<"a">>) -> 20
      [] qv = Encode("q1") /\ cv = Encode(<<"a", "a">>) -> 8
      [] qv = Encode("q1") /\ cv = Encode(<<"a", "a", "a">>) -> 40
      [] qv = Encode("q1") /\ cv = Encode(<<".", ".", ".">>) -> 5
      [] qv = Encode("q2") /\ cv = Encode(<<"a">>) -> 12
      [] qv = Encode("q2") /\ cv = Encode(<<"a", "a">>) -> 9
      [] qv = Encode("q2") /\ cv = Encode(<<"a", "a", "a">>) -> 0 - 10
      [] qv = Encode("q2") /\ cv = Encode(<<".", ".", ".">>) -> 60
      [] OTHER -> 0

\* similarities = cosine_similarity(query_embedding, embeddings)[0]
Similarities(q, emb) == [i \in 1..Len(emb) |-> Cosine(Encode(q), emb[i])]

\* np.argsort(similarities): a permutation of the row indices that puts the
\* similarities in ascending order.  The default sort kind is not stable, so
\* the order among equal similarities is whatever the build produces; for
\* one input it is always the same.
IsArgsort(p, sims) ==
    /\ p \in Perms(Len(sims))
    /\ \A i \in 1..(Len(sims) - 1) : sims[p[i]] <= sims[p[i + 1]]

-----------------------------------------------------------------------------
(* create_embeddings *)

\* a variant that embeds one record less
EmbedAllButFirst(ns) == [i \in 1..(Len(ns) - 1) |-> Encode(ns[i + 1].content)]

\* texts = [note['content'] for note in notes]; _model.encode(texts)
CreateEmbeddings(ns) == [i \in 1..Len(ns) |-> Encode(ns[i].content)]

-----------------------------------------------------------------------------
(* search_notes / search_and_summarize *)

\* Python's seq[:k]
SliceHead(s, k) ==
    IF k >= 0 THEN SubSeq(s, 1, Min(k, Len(s)))
    ELSE SubSeq(s, 1, Max(Len(s) + k, 0))

SliceTail(s, k) ==
    IF k >= 0 THEN SubSeq(s, Len(s) - Min(k, Len(s)) + 1, Len(s))
    ELSE SubSeq(s, 1, Max(Len(s) + k, 0))

Slice(s, k) == SliceHead(s, k)

Ascending(order) == order

Descending(order) == Reverse(order)

\* np.argsort(similarities)[::-1]
Ranked(order) == Descending(order)

\* top_indices = np.argsort(similarities)[::-1][:top_k]
TopIndices(q, k) == Slice(Ranked(sortOrder[q]), k)

AtLeastThreshold(s) == s >= Threshold

\* similarities[idx] > 0.1
AboveThreshold(s) == s > Threshold

\* note = notes[idx].copy(); note['similarity'] = similarities[idx]
WithSimilarity(note, s) ==
    [key \in DOMAIN note \cup {"similarity"} |->
        IF key = "similarity" THEN s ELSE note[key]]

RECURSIVE Collect(_, _, _)
Collect(idxs, sims, ns) ==
    IF idxs = <<>> THEN <<>>
    ELSE LET idx == Head(idxs)
             rest == Collect(Tail(idxs), sims, ns)
         IN IF AboveThreshold(sims[idx])
            THEN <<WithSimilarity(ns[idx], sims[idx])>> \o rest
            ELSE rest

\* search_notes' loop over top_indices: the records it returns
RelevantNotes(q, k) ==
    Collect(TopIndices(q, k), Similarities(q, embeddings), notes)

\* a variant that returns the retrieved records whatever their similarity
RetrievedNotes(q, k) ==
    [i \in 1..Len(TopIndices(q, k)) |->
        WithSimilarity(notes[TopIndices(q, k)[i]],
                       Similarities(q, embeddings)[TopIndices(q, k)[i]])]

\* search_and_summarize's loop over top_indices: its relevant_notes
SummarySources(q, k) ==
    Collect(TopIndices(q, k), Similarities(q, embeddings), notes)

\* a variant that writes the similarity into the record of the corpus
AnnotatedInPlace(ns, idx, s) == [ns EXCEPT ![idx] = WithSimilarity(ns[idx], s)]

\* notes after note = notes[idx].copy(); note['similarity'] = ...: the copy
\* is annotated, the record of the corpus is left as it is
AfterCopy(ns, idx, s) == ns

\* notes after the loop over top_indices, in either search
RECURSIVE CorpusAfter(_, _, _)
CorpusAfter(idxs, sims, ns) ==
    IF idxs = <<>> THEN ns
    ELSE IF AboveThreshold(sims[Head(idxs)])
         THEN CorpusAfter(Tail(idxs), sims,
                          AfterCopy(ns, Head(idxs), sims[Head(idxs)]))
         ELSE CorpusAfter(Tail(idxs), sims, ns)

\* notes after a search: an empty corpus is returned from at once
NotesAfterSearch(q, k) ==
    IF Len(notes) = 0 THEN notes
    ELSE CorpusAfter(TopIndices(q, k), Similarities(q, embeddings), notes)

NeverEmpty(ns) == FALSE

\* len(notes) == 0
CorpusEmpty(ns) == Len(ns) = 0

\* search_notes' return value
SearchNotesResult(q, k) ==
    IF CorpusEmpty(notes) THEN <<>> ELSE RelevantNotes(q, k)

\* top_k's defaults
SearchNotesTopK == 5

SearchAndSummarizeTopK == 10

TopKs == (0 - 1)..MaxTopK

\* a variant that calls the generator again after a failure
GenerateTwice(generatorOk) ==
    IF generatorOk THEN [text |-> "answer", calls |-> 1]
    ELSE [text |-> "error", calls |-> 2]

\* query_ollama(prompt): the response's content, or the text of the error
\* ollama.chat raised; one call either way
QueryOllama(generatorOk) ==
    IF generatorOk THEN [text |-> "answer", calls |-> 1]
    ELSE [text |-> "error", calls |-> 1]

\* search_and_summarize's try block around ollama.chat: the summary
GenerateSummary(generatorOk) ==
    IF generatorOk THEN [text |-> "answer", calls |-> 1]
    ELSE [text |-> "error", calls |-> 1]

\* what the generator did in a request that called it
Generator(generatorOk) == IF generatorOk THEN "answered" ELSE "failed"

AlwaysRelevant(relevant) == FALSE

\* if not relevant_notes
NoneRelevant(relevant) == relevant = <<>>

SearchNotes(q, k) ==
    /\ op.name = "none"
    /\ op' = [name |-> "search_notes", query |-> q, top_k |-> k,
              generator |-> "idle"]
    /\ results' = SearchNotesResult(q, k)
    /\ summary' = "none"
    /\ encodeCalls' = IF CorpusEmpty(notes) THEN 0 ELSE 1
    /\ generateCalls' = 0
    /\ notes' = NotesAfterSearch(q, k)
    /\ UNCHANGED <<embeddings, sortOrder>>

SearchAndSummarize(q, k, generatorOk) ==
    /\ op.name = "none"
    /\ IF CorpusEmpty(notes)
       THEN /\ summary' = "no_notes"
            /\ results' = <<>>
            /\ encodeCalls' = 0
            /\ generateCalls' = 0
       ELSE /\ encodeCalls' = 1
            /\ IF NoneRelevant(SummarySources(q, k))
               THEN /\ summary' = "no_relevant"
                    /\ results' = <<>>
                    /\ generateCalls' = 0
               ELSE /\ generateCalls' = GenerateSummary(generatorOk).calls
                    /\ summary' = GenerateSummary(generatorOk).text
                    /\ results' = SummarySources(q, k)
    /\ op' = [name |-> "search_and_summarize", query |-> q, top_k |-> k,
              generator |-> IF generateCalls' = 0 THEN "idle"
                            ELSE Generator(generatorOk)]
    /\ notes' = NotesAfterSearch(q, k)
    /\ UNCHANGED <<embeddings, sortOrder>>

\* main's chat input: search_notes with the slider's top_k, then the fixed
\* not-found message or query_ollama's text; summary and results are the
\* content and the sources of the assistant message appended.  The tabs and
\* the chat input are reached only with notes.
ChatTurn(q, k, generatorOk) ==
    /\ op.name = "none"
    /\ notes # <<>>
    /\ results' = SearchNotesResult(q, k)
    /\ encodeCalls' = 1
    /\ IF NoneRelevant(results')
       THEN /\ summary' = "not_found"
            /\ generateCalls' = 0
       ELSE /\ summary' = QueryOllama(generatorOk).text
            /\ generateCalls' = QueryOllama(generatorOk).calls
    /\ op' = [name |-> "chat_turn", query |-> q, top_k |-> k,
              generator |-> IF generateCalls' = 0 THEN "idle"
                            ELSE Generator(generatorOk)]
    /\ notes' = NotesAfterSearch(q, k)
    /\ UNCHANGED <<embeddings, sortOrder>>

\* The corpus: chunk records of two files, chunk ids counting within a file.
NoteAt(cs, i) ==
    LET half == (Len(cs) + 1) \div 2
    IN IF i <= half
       THEN [file |-> "a.md", chunk_id |-> i - 1, content |-> cs[i]]
       ELSE [file |-> "b.txt", chunk_id |-> i - 1 - half, content |-> cs[i]]

Corpus(cs) == [i \in 1..Len(cs) |-> NoteAt(cs, i)]

NoOp == [name |-> "none", query |-> "q1", top_k |-> 0, generator |-> "idle"]

\* The script run that served the request ends; its locals are gone and the
\* next request is accepted.
EndRequest ==
    /\ op.name # "none"
    /\ op' = NoOp
    /\ results' = <<>>
    /\ summary' = "none"
    /\ encodeCalls' = 0
    /\ generateCalls' = 0
    /\ UNCHANGED <<notes, embeddings, sortOrder>>

IdleChunk ==
    /\ text = <<>>
    /\ header = <<>>
    /\ maxLength = 0
    /\ chunks = <<>>
    /\ records = <<>>
    /\ loaded = FALSE

Unresolved == [tag |-> "pending", file |-> <<>>]

IdleLink ==
    /\ wikilink = <<>>
    /\ resolution = Unresolved

IdleExtract ==
    /\ content = <<>>
    /\ wikilinks = <<>>
    /\ extracted = FALSE

IdleDaily ==
    /\ path = <<>>
    /\ dailyVerdict = "pending"

NoSources == [daily |-> <<>>, markdown |-> <<>>, text |-> <<>>, other |-> <<>>]

IdleOrganize ==
    /\ sourcesByType = NoSources
    /\ organized = FALSE

NoCache == [cached |-> FALSE]

IdleLoad ==
    /\ disk = <<>>
    /\ listing = <<>>
    /\ loadCache = NoCache
    /\ errors = <<>>
    /\ served = "none"
    /\ sinceLoad = "unloaded"

IdleEmbed == embedCache = {}

IdlePrompt ==
    /\ question = "q1"
    /\ relevantNotes = <<>>
    /\ prompt = <<>>
    /\ promptKind = "none"

IdleEntries ==
    /\ dailyContent = <<>>
    /\ cards = <<>>
    /\ rendered = FALSE

IdleSession == session = <<>>

InitSearch ==
    /\ IdleSession
    /\ IdleEntries
    /\ IdlePrompt
    /\ IdleEmbed
    /\ IdleLoad
    /\ IdleOrganize
    /\ IdleDaily
    /\ IdleChunk
    /\ IdleLink
    /\ IdleExtract
    /\ \E cs \in SeqsUpTo(Contents, MaxNotes) : notes = Corpus(cs)
    /\ embeddings = CreateEmbeddings(notes)
    /\ sortOrder \in [Queries -> Perms(Len(notes))]
    /\ \A q \in Queries : IsArgsort(sortOrder[q], Similarities(q, embeddings))
    /\ op = NoOp
    /\ results = <<>>
    /\ summary = "none"
    /\ encodeCalls = 0
    /\ generateCalls = 0

SearchStep ==
    \/ \E q \in Queries, k \in TopKs \cup {SearchNotesTopK} : SearchNotes(q, k)
    \/ \E q \in Queries, k \in TopKs \cup {SearchAndSummarizeTopK},
          ok \in BOOLEAN : SearchAndSummarize(q, k, ok)
    \/ \E q \in Queries, k \in 1..MaxTopK, ok \in BOOLEAN : ChatTurn(q, k, ok)
    \/ EndRequest

NextSearch == SearchStep /\ UNCHANGED <<chunkVars, linkVars, extractVars,
        dailyVars,
        organizeVars,
        loadVars,
        embedVars,
        promptVars,
        entryVars,
        sessionVars>>

SpecSearch == InitSearch /\ [][NextSearch]_vars

-----------------------------------------------------------------------------
(* chunk_text *)

Chars == {"a", ".", " ", "\n", "#"}

\* \s, and the characters str.strip() removes
IsSpace(c) == c \in {" ", "\n"}

RECURSIVE Strip(_)
\* str.strip()
Strip(s) ==
    IF s = <<>> THEN <<>>
    ELSE IF IsSpace(s[1]) THEN Strip(Tail(s))
    ELSE IF IsSpace(s[Len(s)]) THEN Strip(SubSeq(s, 1, Len(s) - 1))
    ELSE s

\* \n\s*\n tried at offset s: the offset after the match, or -1.  \s* is
\* greedy and gives back characters until a newline follows it.
BlankLineEnd(T, s) ==
    IF s + 1 > Len(T) \/ T[s + 1] # "\n" THEN 0 - 1
    ELSE LET ends == {j \in (s + 2)..Len(T) :
                         /\ T[j] = "\n"
                         /\ \A i \in (s + 2)..j : IsSpace(T[i])}
         IN IF ends = {} THEN 0 - 1
            ELSE CHOOSE j \in ends : \A k \in ends : k <= j

\* (?=^#{1,6}\s) with re.MULTILINE holds at offset s
HeadingAt(T, s) ==
    /\ s = 0 \/ T[s] = "\n"
    /\ \E m \in 1..MaxHeadingLevel :
           /\ s + m + 1 <= Len(T)
           /\ \A i \in 1..m : T[s + i] = "#"
           /\ IsSpace(T[s + m + 1])

\* The pattern tried at offset s: the offset after the match, or -1.  The
\* blank-line alternative is tried first; the empty heading match is refused
\* right after a previous empty match.
MatchEndAt(T, s, allowEmpty) ==
    IF BlankLineEnd(T, s) >= 0 THEN BlankLineEnd(T, s)
    ELSE IF allowEmpty /\ HeadingAt(T, s) THEN s
    ELSE 0 - 1

RECURSIVE ReSplit(_, _, _, _)
\* re.split: the segment pending since offset last, the search at offset s
ReSplit(T, last, s, mustAdvance) ==
    IF s > Len(T) THEN <<SubSeq(T, last + 1, Len(T))>>
    ELSE LET e == MatchEndAt(T, s, ~mustAdvance)
         IN IF e < 0 THEN ReSplit(T, last, s + 1, FALSE)
            ELSE <<SubSeq(T, last + 1, s)>> \o ReSplit(T, e, e, e = s)

\* paragraphs = re.split(r'\n\s*\n|(?=^#{1,6}\s)', text, flags=re.MULTILINE)
Paragraphs(T) == ReSplit(T, 0, 0, FALSE)

HasDot(s) == \E i \in 1..Len(s) : s[i] = "."

\* current_chunk.split('.')[-1]
LastSentence(s) ==
    IF ~HasDot(s) THEN s
    ELSE LET d == CHOOSE i \in 1..Len(s) :
                      s[i] = "." /\ \A j \in (i + 1)..Len(s) : s[j] # "."
         IN SubSeq(s, d + 1, Len(s))

\* len(current_chunk) + len(para) > max_length and current_chunk
MustClose(current, para, maxLen) ==
    Len(current) + Len(para) > maxLen /\ current # <<>>

\* a variant that starts over with each paragraph
KeepLast(current, para) == para

\* current_chunk += '\n\n' + para if current_chunk else para
Joined(current, para) ==
    IF current # <<>> THEN current \o <<"\n", "\n">> \o para ELSE para

\* the chunk seeded with the closed chunk's last sentence
Seeded(current, para) ==
    IF HasDot(current) THEN LastSentence(current) \o <<".", " ">> \o para
    ELSE para

RECURSIVE ChunkLoop(_, _, _, _)
\* for para in paragraphs: ... ; returns [chunks, current_chunk]
ChunkLoop(paras, cs, current, maxLen) ==
    IF paras = <<>> THEN [chunks |-> cs, current |-> current]
    ELSE LET para == Strip(Head(paras))
         IN IF para = <<>> THEN ChunkLoop(Tail(paras), cs, current, maxLen)
            ELSE IF MustClose(current, para, maxLen)
            THEN ChunkLoop(Tail(paras), Append(cs, Strip(current)),
                           Seeded(current, para), maxLen)
            ELSE ChunkLoop(Tail(paras), cs, Joined(current, para), maxLen)

\* chunk_text(text, filename, max_length)
ChunkText(T, maxLen) ==
    LET r == ChunkLoop(Paragraphs(T), <<>>, <<>>, maxLen)
        cs == IF Strip(r.current) # <<>>
              THEN Append(r.chunks, Strip(r.current)) ELSE r.chunks
    IN IF cs # <<>> THEN cs ELSE <<T>>

\* a variant that numbers no chunk
UnnumberedRecords(file, cs) ==
    [i \in 1..Len(cs) |-> [file |-> file, chunk_id |-> 0, content |-> cs[i]]]

\* the records load_notes appends for one file
ChunkRecords(file, cs) ==
    [i \in 1..Len(cs) |->
        [file |-> file, chunk_id |-> i - 1, content |-> cs[i]]]

IdleSearch ==
    /\ notes = <<>>
    /\ embeddings = <<>>
    /\ sortOrder = [q \in Queries |-> <<>>]
    /\ op = NoOp
    /\ results = <<>>
    /\ summary = "none"
    /\ encodeCalls = 0
    /\ generateCalls = 0

-----------------------------------------------------------------------------
(* resolve_wikilink *)

\* str.lower(), one character
LowerChar(c) ==
    CASE c = "A" -> "a"
      [] c = "B" -> "b"
      [] c = "Z" -> "z"
      [] OTHER -> c

\* str.lower()
Lower(s) == [i \in 1..Len(s) |-> LowerChar(s[i])]

\* a in b, for strings
IsSubstr(a, b) ==
    \E i \in 0..(Len(b) - Len(a)) : SubSeq(b, i + 1, i + Len(a)) = a

\* index of the last occurrence of character c in s, 0 when there is none
LastIndexOf(s, c) ==
    IF \A i \in 1..Len(s) : s[i] # c THEN 0
    ELSE CHOOSE i \in 1..Len(s) :
             s[i] = c /\ \A j \in (i + 1)..Len(s) : s[j] # c

\* Path(p).name: the final path component
PathName(p) == SubSeq(p, LastIndexOf(p, "/") + 1, Len(p))

\* Path(p).stem: the name without its last suffix; a leading or a trailing
\* dot starts no suffix
Stem(p) ==
    LET name == PathName(p)
        d == LastIndexOf(name, ".")
    IN IF d > 1 /\ d < Len(name) THEN SubSeq(name, 1, d - 1) ELSE name

\* metadata values: a string, or a scalar that is no string (YAML null, a
\* number, a date)
StrValue(s) == [type |-> "str", val |-> s]

NonStrValue == [type |-> "nonstr", val |-> <<>>]

\* metadata.get('title', '')
TitleOf(metadata) ==
    IF "title" \in DOMAIN metadata THEN metadata["title"] ELSE StrValue(<<>>)

Found(file) == [tag |-> "path", file |-> file]

NotFound == [tag |-> "none", file |-> <<>>]

\* AttributeError: the title has no lower()
Raised == [tag |-> "error", file |-> <<>>]

\* a variant without the second loop
NoPartialLoop(linkLower, ns, i) == NotFound

RECURSIVE PartialLoop(_, _, _)
\* the second loop: the first record whose stem contains the link text or
\* is contained in it
PartialLoop(linkLower, ns, i) ==
    IF i > Len(ns) THEN NotFound
    ELSE LET stem == Lower(Stem(ns[i].file))
         IN IF IsSubstr(linkLower, stem) \/ IsSubstr(stem, linkLower)
            THEN Found(ns[i].file)
            ELSE PartialLoop(linkLower, ns, i + 1)

RECURSIVE ExactLoop(_, _, _)
\* the first loop: the first record whose stem or title equals the link text
ExactLoop(linkLower, ns, i) ==
    IF i > Len(ns) THEN PartialLoop(linkLower, ns, 1)
    ELSE LET stem == Lower(Stem(ns[i].file))
             title == TitleOf(ns[i].metadata)
         IN IF stem = linkLower THEN Found(ns[i].file)
            ELSE IF title.type # "str" THEN Raised
            ELSE IF Lower(title.val) = linkLower THEN Found(ns[i].file)
            ELSE ExactLoop(linkLower, ns, i + 1)

\* resolve_wikilink(wikilink, notes)
ResolveWikilinkResult(link, ns) == ExactLoop(Lower(link), ns, 1)

\* render_linked_viewer's suggestions when the link was not found: the files
\* among the first five records whose stem contains the link text
RECURSIVE SimilarLoop(_, _)
SimilarLoop(linkLower, ns) ==
    IF ns = <<>> THEN <<>>
    ELSE IF IsSubstr(linkLower, Lower(Stem(Head(ns).file)))
    THEN <<Head(ns).file>> \o SimilarLoop(linkLower, Tail(ns))
    ELSE SimilarLoop(linkLower, Tail(ns))

SimilarFiles(link, ns) == SimilarLoop(Lower(link), SliceHead(ns, 5))

\* The files of the corpus, each with the metadata of its header block.
NoMetadata == [k \in {} |-> NonStrValue]

TitleMetadata(v) == [k \in {"title"} |-> v]

CorpusFiles ==
    { [file |-> <<"x", "/", "a", "b", ".", "m", "d">>, metadata |-> NoMetadata],
      [file |-> <<"y", "/", "a", "b", "b", ".", "m", "d">>,
       metadata |-> TitleMetadata(StrValue(<<"B">>))],
      [file |-> <<"b", ".", "m", "d">>, metadata |-> TitleMetadata(NonStrValue)],
      [file |-> <<"z", ".", "a", ".", "m", "d">>,
       metadata |-> TitleMetadata(StrValue(<<"A", "b">>))],
      [file |-> <<"A", "b", ".", "t", "x", "t">>, metadata |-> NoMetadata],
      [file |-> <<"y", "/", "B", ".", "t", "x", "t">>, metadata |-> NoMetadata] }

LinkTexts ==
    { <<"a", "b">>, <<"A", "B">>, <<"b">>, <<"b", "b">>, <<"z">>, <<"Z", "Z">> }

IsTxt(f) == SubSeq(f.file, Len(f.file) - 3, Len(f.file)) = <<".", "t", "x", "t">>

\* load_notes' order: the chunks of a file together, .md files before .txt
IsLoadOrder(fs) ==
    \A i, j \in 1..Len(fs) :
        i < j => /\ fs[i] = fs[j] => \A k \in i..j : fs[k] = fs[i]
                 /\ ~(IsTxt(fs[i]) /\ ~IsTxt(fs[j]))

ChunkIdAt(fs, i) == Cardinality({j \in 1..(i - 1) : fs[j] = fs[i]})

LinkCorpus(fs) ==
    [i \in 1..Len(fs) |->
        [file |-> fs[i].file, chunk_id |-> ChunkIdAt(fs, i),
         metadata |-> fs[i].metadata]]

\* the linked viewer resolves the selected wikilink
ResolveWikilink ==
    /\ resolution.tag = "pending"
    /\ resolution' = ResolveWikilinkResult(wikilink, notes)
    /\ UNCHANGED <<wikilink, notes>>

\* the viewer is rendered again on the next run
RenderAgain ==
    /\ resolution.tag # "pending"
    /\ resolution' = Unresolved
    /\ UNCHANGED <<wikilink, notes>>

InitResolve ==
    /\ IdleSession
    /\ IdleEntries
    /\ IdlePrompt
    /\ IdleEmbed
    /\ IdleLoad
    /\ IdleOrganize
    /\ IdleDaily
    /\ IdleChunk
    /\ IdleExtract
    /\ \E fs \in SeqsUpTo(CorpusFiles, MaxLinkNotes) :
           IsLoadOrder(fs) /\ notes = LinkCorpus(fs)
    /\ embeddings = <<>>
    /\ sortOrder = [q \in Queries |-> <<>>]
    /\ op = NoOp
    /\ results = <<>>
    /\ summary = "none"
    /\ encodeCalls = 0
    /\ generateCalls = 0
    /\ wikilink \in LinkTexts
    /\ resolution = Unresolved

ResolveStep ==
    \/ ResolveWikilink
    \/ RenderAgain

NextResolve ==
    ResolveStep /\ UNCHANGED <<embeddings, sortOrder, op, results, summary,
                               encodeCalls, generateCalls, chunkVars,
                               extractVars,
        dailyVars,
        organizeVars,
        loadVars,
        embedVars,
        promptVars,
        entryVars,
        sessionVars>>

SpecResolve == InitResolve /\ [][NextResolve]_vars

-----------------------------------------------------------------------------
(* extract_wikilinks *)

\* [^\]]+ taken greedily at index i: the length of the run of characters
\* other than "]" that starts there
RunLength(T, i) ==
    LET stops == {j \in i..Len(T) : T[j] = "]"}
    IN IF stops = {} THEN Len(T) - i + 1
       ELSE (CHOOSE j \in stops : \A k \in stops : j <= k) - i

\* \[\[([^\]]+)\]\] tried at offset s: the length of the group, or 0 when
\* the pattern does not match there.  The group gives back characters until
\* "]]" follows it.
GroupLength(T, s) ==
    IF s + 2 > Len(T) \/ T[s + 1] # "[" \/ T[s + 2] # "[" THEN 0
    ELSE LET lens == {m \in 1..RunLength(T, s + 3) :
                         /\ s + m + 4 <= Len(T)
                         /\ T[s + m + 3] = "]"
                         /\ T[s + m + 4] = "]"}
         IN IF lens = {} THEN 0
            ELSE CHOOSE m \in lens : \A k \in lens : k <= m

StrippedGroup(T, s, m) == Strip(SubSeq(T, s + 3, s + m + 2))

\* group 1 of the match at offset s
Group(T, s, m) == SubSeq(T, s + 3, s + m + 2)

RECURSIVE FindAll(_, _)
\* re.findall(pattern, content), the scan at offset s
FindAll(T, s) ==
    IF s >= Len(T) THEN <<>>
    ELSE LET m == GroupLength(T, s)
         IN IF m = 0 THEN FindAll(T, s + 1)
            ELSE <<Group(T, s, m)>> \o FindAll(T, s + m + 4)

\* extract_wikilinks(content)
ExtractWikilinksResult(T) == FindAll(T, 0)

\* The contents: every concatenation of at most MaxTokens of these pieces.
Tokens ==
    { <<"[", "[", "b", "]", "]">>, <<"[", "[">>, <<"]", "]">>, <<"[">>, <<"]">>,
      <<" ", "A">> }

RECURSIVE Concat(_)
Concat(ts) == IF ts = <<>> THEN <<>> ELSE Head(ts) \o Concat(Tail(ts))

\* the content viewer extracts the wikilinks of the content it shows
ExtractWikilinks ==
    /\ ~extracted
    /\ wikilinks' = ExtractWikilinksResult(content)
    /\ extracted' = TRUE
    /\ UNCHANGED content

\* the viewer is rendered again on the next run
ShowAgain ==
    /\ extracted
    /\ wikilinks' = <<>>
    /\ extracted' = FALSE
    /\ UNCHANGED content

InitExtract ==
    /\ IdleSession
    /\ IdleEntries
    /\ IdlePrompt
    /\ IdleEmbed
    /\ IdleLoad
    /\ IdleOrganize
    /\ IdleDaily
    /\ IdleSearch
    /\ IdleChunk
    /\ IdleLink
    /\ \E ts \in SeqsUpTo(Tokens, MaxTokens) : content = Concat(ts)
    /\ wikilinks = <<>>
    /\ extracted = FALSE

ExtractStep ==
    \/ ExtractWikilinks
    \/ ShowAgain

NextExtract == ExtractStep /\ UNCHANGED <<searchVars, chunkVars, linkVars,
        dailyVars,
        organizeVars,
        loadVars,
        embedVars,
        promptVars,
        entryVars,
        sessionVars>>

SpecExtract == InitExtract /\ [][NextExtract]_vars

-----------------------------------------------------------------------------
(* sources.py: is_daily_note *)

Digits == {"0", "1", "2", "3", "4", "5", "6", "7", "8", "9"}

\* \d{4}-\d{2}-\d{2}\.md, one entry per character: a class or a literal
DatePattern ==
    <<"digit", "digit", "digit", "digit", "-", "digit", "digit", "-",
      "digit", "digit", ".", "m", "d">>

MatchesClass(c, k) == IF k = "digit" THEN c \in Digits ELSE c = k

\* the date pattern matches the characters of p after the first i
PatternAt(p, i) ==
    /\ i + Len(DatePattern) <= Len(p)
    /\ \A j \in 1..Len(DatePattern) : MatchesClass(p[i + j], DatePattern[j])

\* re.match(r'.*\d{4}-\d{2}-\d{2}\.md$', p): '.' matches no newline, '$'
\* matches at the end and before a newline that ends the string
ReMatchDate(p) ==
    \E i \in 0..Len(p) :
        /\ \A j \in 1..i : p[j] # "\n"
        /\ PatternAt(p, i)
        /\ \/ i + Len(DatePattern) = Len(p)
           \/ i + Len(DatePattern) + 1 = Len(p) /\ p[Len(p)] = "\n"

StartsWith(p, a) == Len(a) <= Len(p) /\ SubSeq(p, 1, Len(a)) = a

DailySlash == <<"d", "a", "i", "l", "y", "/">>

IsDailyNote(p) ==
    \/ IsSubstr(DailySlash, p)
    \/ IsSubstr(<<"/">> \o DailySlash, p)
    \/ StartsWith(p, DailySlash)
    \/ ReMatchDate(p)

\* the pieces relative paths are made of
PathTokens ==
    { <<"d", "a", "i", "l", "y">>, <<"/">>, <<"x">>,
      <<"2", "0", "2", "5", "-", "0", "7", "-", "2", "7">>,
      <<".", "m", "d">>, <<".", "t", "x", "t">> }

\* str(file_path.relative_to(notes_path)): components are not empty
IsRelativePath(p) ==
    /\ p # <<>>
    /\ p[1] # "/"
    /\ p[Len(p)] # "/"
    /\ \A i \in 1..(Len(p) - 1) : ~(p[i] = "/" /\ p[i + 1] = "/")

\* the sources view asks whether the file is a daily note
ClassifyPath ==
    /\ dailyVerdict = "pending"
    /\ dailyVerdict' = IF IsDailyNote(path) THEN "daily" ELSE "regular"
    /\ UNCHANGED path

\* the next file is asked about
NextPath ==
    /\ dailyVerdict # "pending"
    /\ dailyVerdict' = "pending"
    /\ UNCHANGED path

InitDaily ==
    /\ IdleSession
    /\ IdleEntries
    /\ IdlePrompt
    /\ IdleEmbed
    /\ IdleLoad
    /\ IdleOrganize
    /\ IdleSearch
    /\ IdleChunk
    /\ IdleLink
    /\ IdleExtract
    /\ \E ts \in SeqsUpTo(PathTokens, MaxPathTokens) :
           path = Concat(ts) /\ IsRelativePath(path)
    /\ dailyVerdict = "pending"

DailyStep ==
    \/ ClassifyPath
    \/ NextPath

NextDaily ==
    DailyStep /\ UNCHANGED <<searchVars, chunkVars, linkVars, extractVars,
        organizeVars,
        loadVars,
        embedVars,
        promptVars,
        entryVars,
        sessionVars>>

SpecDaily == InitDaily /\ [][NextDaily]_vars

-----------------------------------------------------------------------------
(* sources.py: organize_sources_by_type *)

EndsWith(p, a) ==
    Len(a) <= Len(p) /\ SubSeq(p, Len(p) - Len(a) + 1, Len(p)) = a

\* the category of a file: daily notes first, then by extension
FileType(f) ==
    IF IsDailyNote(f) THEN "daily"
    ELSE IF EndsWith(f, <<".", "m", "d">>) THEN "markdown"
    ELSE IF EndsWith(f, <<".", "t", "x", "t">>) THEN "text"
    ELSE "other"

\* sum(1 for n in notes if n.get('file') == file_path)
ChunksCount(ns, f) == Cardinality({j \in 1..Len(ns) : ns[j].file = f})

\* note.get('metadata', {}).get('tags', [])
TagsOf(metadata) ==
    IF "tags" \in DOMAIN metadata THEN metadata["tags"] ELSE <<>>

\* the source entry built from the first record of a file
SourceInfo(ns, note, type) ==
    [file |-> note.file, title |-> note.title, metadata |-> note.metadata,
     chunks_count |-> ChunksCount(ns, note.file),
     tags |-> TagsOf(note.metadata), is_daily |-> type = "daily"]

\* a variant that takes every record for a new file
NeverSeen(seen, f) == FALSE

\* file_path in seen_files
SeenFile(seen, f) == f \in seen

\* for note in notes, from record i on
RECURSIVE OrganizeLoop(_, _, _, _)
OrganizeLoop(ns, i, seen, acc) ==
    IF i > Len(ns) THEN acc
    ELSE LET f == ns[i].file
         IN IF SeenFile(seen, f) THEN OrganizeLoop(ns, i + 1, seen, acc)
            ELSE LET type == FileType(f)
                 IN OrganizeLoop(ns, i + 1, seen \cup {f},
                        [acc EXCEPT ![type] =
                            Append(@, SourceInfo(ns, ns[i], type))])

\* organize_sources_by_type(notes)
OrganizeSourcesByType(ns) == OrganizeLoop(ns, 1, {}, NoSources)

\* metadata of a header block that lists tags
TagsMetadata == [k \in {"tags"} |-> <<"t1">>]

\* The files of the corpus the sources view shows.
SourceFiles ==
    { [file |-> <<"d", "a", "i", "l", "y", "/", "x", ".", "m", "d">>,
       metadata |-> NoMetadata],
      [file |-> <<"2", "0", "2", "5", "-", "0", "7", "-", "2", "7", ".", "m", "d">>,
       metadata |-> TagsMetadata],
      [file |-> <<"x", ".", "m", "d">>,
       metadata |-> TitleMetadata(StrValue(<<"B">>))],
      [file |-> <<"x", ".", "M", "D">>, metadata |-> NoMetadata],
      [file |-> <<"x", ".", "t", "x", "t">>, metadata |-> NoMetadata],
      [file |-> <<"d", "a", "i", "l", "y", "/", "x", ".", "t", "x", "t">>,
       metadata |-> NoMetadata] }

\* metadata.get('title', file_path.stem)
LoadedTitle(f) ==
    IF "title" \in DOMAIN f.metadata THEN f.metadata["title"]
    ELSE StrValue(Stem(f.file))

SourceCorpus(fs) ==
    [i \in 1..Len(fs) |->
        [file |-> fs[i].file, title |-> LoadedTitle(fs[i]),
         chunk_id |-> ChunkIdAt(fs, i), metadata |-> fs[i].metadata]]

\* the sources tab is rendered
OrganizeSources ==
    /\ ~organized
    /\ sourcesByType' = OrganizeSourcesByType(notes)
    /\ organized' = TRUE
    /\ UNCHANGED notes

\* the tab is rendered again on the next run
OrganizeAgain ==
    /\ organized
    /\ sourcesByType' = NoSources
    /\ organized' = FALSE
    /\ UNCHANGED notes

InitOrganize ==
    /\ IdleSession
    /\ IdleEntries
    /\ IdlePrompt
    /\ IdleEmbed
    /\ IdleLoad
    /\ IdleChunk
    /\ IdleLink
    /\ IdleExtract
    /\ IdleDaily
    /\ \E fs \in SeqsUpTo(SourceFiles, MaxSourceNotes) :
           fs # <<>> /\ IsLoadOrder(fs) /\ notes = SourceCorpus(fs)
    /\ embeddings = <<>>
    /\ sortOrder = [q \in Queries |-> <<>>]
    /\ op = NoOp
    /\ results = <<>>
    /\ summary = "none"
    /\ encodeCalls = 0
    /\ generateCalls = 0
    /\ sourcesByType = NoSources
    /\ organized = FALSE

OrganizeStep ==
    \/ OrganizeSources
    \/ OrganizeAgain

NextOrganize ==
    OrganizeStep /\ UNCHANGED <<embeddings, sortOrder, op, results, summary,
                                encodeCalls, generateCalls, chunkVars,
                                linkVars, extractVars, dailyVars,
        loadVars,
        embedVars,
        promptVars,
        entryVars,
        sessionVars>>

SpecOrganize == InitOrganize /\ [][NextOrganize]_vars

-----------------------------------------------------------------------------
(* chat_app.py: load_notes and its cache *)

MdExt == <<".", "m", "d">>

TxtExt == <<".", "t", "x", "t">>

\* extensions = ['.md', '.txt']
Extensions == <<MdExt, TxtExt>>

\* the files that may exist under the notes folder
NoteFiles == {<<"a">> \o MdExt, <<"b">> \o MdExt, <<"c">> \o TxtExt}

\* A file as load_notes finds it: absent; present but failing in open,
\* decoding or front matter parsing; or readable, with the metadata of its
\* header block and the content after it.
Absent == [status |-> "absent"]

Unreadable == [status |-> "bad"]

Readable(metadata, body) ==
    [status |-> "ok", metadata |-> metadata, content |-> body]

OneParagraph == <<"a">>

TwoParagraphs == <<"a", "a", "a", "\n", "\n", "a", "a">>

DottedParagraphs == <<"a", "a", "a", "\n", "\n", ".", ".", ".">>

\* what each file may be; a .txt file is read whole and has no header block
FileStates(f) ==
    IF f = <<"a">> \o MdExt
    THEN {Unreadable, Readable(NoMetadata, OneParagraph),
          Readable(TitleMetadata(StrValue(<<"B">>)), TwoParagraphs)}
    ELSE IF f = <<"b">> \o MdExt
    THEN {Absent, Readable(NoMetadata, OneParagraph)}
    ELSE {Absent, Unreadable, Readable(NoMetadata, DottedParagraphs)}

\* the files of S that a scan for one extension may yield
WithExtension(S, ext) == {f \in S : EndsWith(f, ext)}

\* the orders in which the scans may yield the files of S: one order per
\* extension, each file once
ScanOrders(S) ==
    {s \in [1..Cardinality(S) -> S] :
        \A i, j \in 1..Cardinality(S) : i # j => s[i] # s[j]}

DirOrders(S) ==
    {o \in [{MdExt, TxtExt} ->
               ScanOrders(WithExtension(S, MdExt))
                   \cup ScanOrders(WithExtension(S, TxtExt))] :
        \A ext \in {MdExt, TxtExt} :
            o[ext] \in ScanOrders(WithExtension(S, ext))}

\* notes_path.rglob(f'*{ext}'): the files present, in scan order.  A folder
\* that does not exist holds no file.
Glob(d, order, ext) ==
    SelectSeq(order[ext], LAMBDA f : d[f].status # "absent")

\* chunk_text's max_length as load_notes leaves it, at the scale of the files
LoadMaxLength == MaxChunkLen

\* the records appended for one file: ChunkRecords with title and metadata
NoteRecords(f, metadata, cs) ==
    [i \in 1..Len(cs) |->
        [file |-> f,
         title |-> LoadedTitle([file |-> f, metadata |-> metadata]),
         content |-> ChunkRecords(f, cs)[i].content,
         chunk_id |-> ChunkRecords(f, cs)[i].chunk_id,
         metadata |-> metadata]]

\* the header blocks of the file being loaded: none, or one with a title
Headers == {NoMetadata, TitleMetadata(StrValue(<<"B">>))}

\* load_notes' body for one file: chunk the content, append a record per
\* chunk.  load_notes leaves max_length at its default; maxLength stands for
\* it at the scale of the texts.
LoadFile ==
    /\ ~loaded
    /\ chunks' = ChunkText(text, maxLength)
    /\ records' = NoteRecords(<<"a">> \o MdExt, header, chunks')
    /\ loaded' = TRUE
    /\ UNCHANGED <<text, header, maxLength>>

\* the next file is taken up
NextFile ==
    /\ loaded
    /\ chunks' = <<>>
    /\ records' = <<>>
    /\ loaded' = FALSE
    /\ UNCHANGED <<text, header, maxLength>>

InitChunk ==
    /\ IdleSession
    /\ IdleEntries
    /\ IdlePrompt
    /\ IdleEmbed
    /\ IdleLoad
    /\ IdleOrganize
    /\ IdleDaily
    /\ IdleSearch
    /\ IdleLink
    /\ IdleExtract
    /\ text \in SeqsUpTo(Chars, MaxTextLen)
    /\ header \in Headers
    /\ maxLength \in 1..MaxChunkLen
    /\ chunks = <<>>
    /\ records = <<>>
    /\ loaded = FALSE

ChunkStep ==
    \/ LoadFile
    \/ NextFile

NextChunk == ChunkStep /\ UNCHANGED <<searchVars, linkVars, extractVars,
        dailyVars,
        organizeVars,
        loadVars,
        embedVars,
        promptVars,
        entryVars,
        sessionVars>>

SpecChunk == InitChunk /\ [][NextChunk]_vars

\* the try block raises for the file: open, decoding or parsing fails
FileFails(f, d) == d[f].status = "bad"

\* the try block for one file: the records appended, none when it raises
FileRecords(f, ext, d) ==
    IF FileFails(f, d) THEN <<>>
    ELSE LET metadata == IF ext = MdExt THEN d[f].metadata ELSE NoMetadata
         IN NoteRecords(f, metadata, ChunkText(d[f].content, LoadMaxLength))

\* the except clause for one file: st.error(f"Error loading {file_path}: ...")
FileErrors(f, d) == IF FileFails(f, d) THEN <<f>> ELSE <<>>

\* a variant in which a failure ends the pass over the files
StopAfterFailure(fs, d) == IF FileFails(Head(fs), d) THEN <<>> ELSE Tail(fs)

\* the files still to load after the except clause or the appends
Remaining(fs, d) == Tail(fs)

\* for file_path in notes_path.rglob(f'*{ext}'): the records appended
RECURSIVE LoadedRecords(_, _, _)
LoadedRecords(fs, ext, d) ==
    IF fs = <<>> THEN <<>>
    ELSE FileRecords(Head(fs), ext, d)
             \o LoadedRecords(Remaining(fs, d), ext, d)

\* for file_path in notes_path.rglob(f'*{ext}'): the errors displayed
RECURSIVE ReportedErrors(_, _)
ReportedErrors(fs, d) ==
    IF fs = <<>> THEN <<>>
    ELSE FileErrors(Head(fs), d) \o ReportedErrors(Remaining(fs, d), d)

\* for ext in extensions: notes after the loops
RECURSIVE LoadedNotes(_, _, _)
LoadedNotes(exts, d, order) ==
    IF exts = <<>> THEN <<>>
    ELSE LoadedRecords(Glob(d, order, Head(exts)), Head(exts), d)
             \o LoadedNotes(Tail(exts), d, order)

\* for ext in extensions: the errors displayed by the loops
RECURSIVE LoadErrors(_, _, _)
LoadErrors(exts, d, order) ==
    IF exts = <<>> THEN <<>>
    ELSE ReportedErrors(Glob(d, order, Head(exts)), d)
             \o LoadErrors(Tail(exts), d, order)

\* the body of load_notes: the records returned and the errors displayed
LoadNotesResult(d, order) ==
    [notes |-> LoadedNotes(Extensions, d, order),
     errors |-> LoadErrors(Extensions, d, order)]

Cached(r) == [cached |-> TRUE, value |-> r]

\* load_notes(notes_folder) under @st.cache_data: the entry for the folder is
\* returned and its messages are shown again; without an entry the body runs
\* and its outcome is stored.
LoadNotesCall(cache) ==
    /\ loadCache' = IF cache.cached THEN cache
                    ELSE Cached(LoadNotesResult(disk, listing))
    /\ errors' = loadCache'.value.errors
    /\ served' = IF cache.cached THEN "cached" ELSE "computed"
    /\ sinceLoad' = "same"

\* a script run calls load_notes
LoadNotes ==
    /\ LoadNotesCall(loadCache)
    /\ notes' = loadCache'.value.notes
    /\ UNCHANGED <<disk, listing>>

\* the reload button: st.cache_data.clear(), then the script runs again
ReloadNotes ==
    /\ LoadNotesCall(NoCache)
    /\ notes' = loadCache'.value.notes
    /\ UNCHANGED <<disk, listing>>

\* a file under the folder is created, rewritten or deleted
ChangeFile(f, state) ==
    /\ state # disk[f]
    /\ disk' = [disk EXCEPT ![f] = state]
    /\ listing' \in DirOrders(DOMAIN disk)
    /\ sinceLoad' = IF sinceLoad = "unloaded" THEN "unloaded" ELSE "changed"
    /\ UNCHANGED <<notes, loadCache, errors, served>>

InitLoad ==
    /\ IdleSession
    /\ IdleEntries
    /\ IdlePrompt
    /\ IdleEmbed
    /\ IdleChunk
    /\ IdleLink
    /\ IdleExtract
    /\ IdleDaily
    /\ IdleOrganize
    /\ IdleSearch
    /\ disk \in [NoteFiles -> UNION {FileStates(f) : f \in NoteFiles}]
    /\ \A f \in NoteFiles : disk[f] \in FileStates(f)
    /\ listing \in DirOrders(NoteFiles)
    /\ loadCache = NoCache
    /\ errors = <<>>
    /\ served = "none"
    /\ sinceLoad = "unloaded"

LoadStep ==
    \/ LoadNotes
    \/ ReloadNotes
    \/ \E f \in DOMAIN disk : \E state \in FileStates(f) : ChangeFile(f, state)

NextLoad ==
    LoadStep /\ UNCHANGED <<embeddings, sortOrder, op, results, summary,
                            encodeCalls, generateCalls, chunkVars, linkVars,
                            extractVars, dailyVars, organizeVars,
        embedVars,
        promptVars,
        entryVars,
        sessionVars>>

SpecLoad == InitLoad /\ [][NextLoad]_vars

-----------------------------------------------------------------------------
(* chat_app.py: main's loading steps, create_embeddings and its cache *)

\* the body of create_embeddings: the matrix and the notes it was given
CreateEmbeddingsResult(ns) ==
    IF ns = <<>> THEN [embeddings |-> <<>>, notes |-> <<>>]
    ELSE [embeddings |-> CreateEmbeddings(ns), notes |-> ns]

\* the entry of create_embeddings' cache for the argument ns; the model
\* argument is left out of the key
EmbedEntry(cache, ns) == CHOOSE e \in cache : e.key = ns

\* the orders np.argsort may give for the similarities to the rows of emb
Argsorts(emb) ==
    {so \in [Queries -> Perms(Len(emb))] :
        \A q \in Queries : IsArgsort(so[q], Similarities(q, emb))}

\* main after load_notes returned ns: it returns on an empty collection,
\* else it calls create_embeddings under @st.cache_data and keeps the pair
\* the call returns, from the entry for ns or from the body, whose result is
\* stored.
EmbedNotes(cache, ns) ==
    IF ns = <<>>
    THEN /\ embedCache' = cache
         /\ notes' = <<>>
         /\ embeddings' = <<>>
         /\ sortOrder' = [q \in Queries |-> <<>>]
    ELSE /\ embedCache' =
                IF \E e \in cache : e.key = ns THEN cache
                ELSE cache \cup
                         {[key |-> ns, value |-> CreateEmbeddingsResult(ns)]}
         /\ notes' = EmbedEntry(embedCache', ns).value.notes
         /\ embeddings' = EmbedEntry(embedCache', ns).value.embeddings
         /\ sortOrder' \in Argsorts(embeddings')

\* a script run up to the tabs: load_notes, then create_embeddings
RunScript ==
    /\ served = "none"
    /\ LoadNotesCall(loadCache)
    /\ EmbedNotes(embedCache, loadCache'.value.notes)
    /\ UNCHANGED <<disk, listing, op, results, summary, encodeCalls,
                   generateCalls>>

\* the reload button: st.cache_data.clear() empties both caches, st.rerun()
\* runs the script again
Reload ==
    /\ served = "none"
    /\ LoadNotesCall(NoCache)
    /\ EmbedNotes({}, loadCache'.value.notes)
    /\ UNCHANGED <<disk, listing, op, results, summary, encodeCalls,
                   generateCalls>>

\* the tabs are rendered only when notes were found
TabsShown == served # "none" /\ notes # <<>>

\* the script run ends: its locals and what it displayed are gone, the caches
\* stay
EndRun ==
    /\ served # "none"
    /\ served' = "none"
    /\ notes' = <<>>
    /\ embeddings' = <<>>
    /\ sortOrder' = [q \in Queries |-> <<>>]
    /\ errors' = <<>>
    /\ op' = NoOp
    /\ results' = <<>>
    /\ summary' = "none"
    /\ encodeCalls' = 0
    /\ generateCalls' = 0
    /\ UNCHANGED <<disk, listing, loadCache, sinceLoad, embedCache>>

\* the files the application's folder may hold
AppFiles == {<<"a">> \o MdExt, <<"c">> \o TxtExt}

InitApp ==
    /\ IdleSession
    /\ IdleEntries
    /\ IdlePrompt
    /\ IdleChunk
    /\ IdleLink
    /\ IdleExtract
    /\ IdleDaily
    /\ IdleOrganize
    /\ IdleSearch
    /\ IdleEmbed
    /\ disk \in [AppFiles -> UNION {FileStates(f) : f \in AppFiles}]
    /\ \A f \in AppFiles : disk[f] \in FileStates(f)
    /\ listing \in DirOrders(AppFiles)
    /\ loadCache = NoCache
    /\ errors = <<>>
    /\ served = "none"
    /\ sinceLoad = "unloaded"

AppStep ==
    \/ RunScript
    \/ Reload
    \/ EndRun
    \/ /\ \E f \in DOMAIN disk : \E state \in FileStates(f) : ChangeFile(f, state)
       /\ UNCHANGED <<embeddings, sortOrder, op, results, summary,
                      encodeCalls, generateCalls, embedCache>>
    \/ /\ TabsShown
       /\ \E q \in Queries, k \in 1..MaxTopK : SearchNotes(q, k)
       /\ UNCHANGED <<loadVars, embedVars>>
    \/ /\ TabsShown
       /\ \E q \in Queries, k \in 1..MaxTopK, ok \in BOOLEAN :
              SearchAndSummarize(q, k, ok)
       /\ UNCHANGED <<loadVars, embedVars>>
    \/ /\ TabsShown
       /\ \E q \in Queries, k \in 1..MaxTopK, ok \in BOOLEAN :
              ChatTurn(q, k, ok)
       /\ UNCHANGED <<loadVars, embedVars>>

NextApp ==
    AppStep /\ UNCHANGED <<chunkVars, linkVars, extractVars, dailyVars,
                           organizeVars,
        promptVars,
        entryVars,
        sessionVars>>

SpecApp == InitApp /\ [][NextApp]_vars

-----------------------------------------------------------------------------
(* create_rag_prompt (chat_app.py) and create_summarization_prompt         *)
(* (search.py).  A prompt is the sequence of its pieces: Fixed(t) is a     *)
(* stretch of the template's own text, Given(v) a value formatted into it, *)
(* v being a sequence of strings.                                          *)

Fixed(t) == [kind |-> "fixed", text |-> t]

Given(v) == [kind |-> "given", value |-> v]

DigitOf(n) == <<"0", "1", "2", "3", "4", "5", "6", "7", "8", "9">>[n + 1]

\* f"{similarity:.2f}" of a similarity given in hundredths
Format2f(s) ==
    (IF s < 0 THEN <<"-">> ELSE <<>>)
        \o <<DigitOf((IF s < 0 THEN 0 - s ELSE s) \div 100), ".",
             DigitOf(((IF s < 0 THEN 0 - s ELSE s) \div 10) % 10),
             DigitOf((IF s < 0 THEN 0 - s ELSE s) % 10)>>

\* note.get('similarity') is truthy: present and not zero
HasSimilarity(note) ==
    /\ "similarity" \in DOMAIN note
    /\ note.similarity # 0

\* note.get('heading') is truthy: present and not empty
HasHeading(note) ==
    /\ "heading" \in DOMAIN note
    /\ note.heading # <<>>

\* one note's block of create_rag_prompt's context
RagBlock(i, note) ==
    <<Fixed("\n\n--- Source "), Given(<<DigitOf(i)>>), Fixed(": "), Given(note.file),
      Fixed(" ---\n"), Given(note.content)>>
        \o (IF HasSimilarity(note)
            THEN <<Fixed("\n(Relevance: "),
                   Given(Format2f(note.similarity)), Fixed(")")>>
            ELSE <<>>)

RECURSIVE RagContext(_)
RagContext(ns) ==
    IF ns = <<>> THEN <<>>
    ELSE RagContext(SubSeq(ns, 1, Len(ns) - 1))
             \o RagBlock(Len(ns), ns[Len(ns)])

RagInstructions ==
    <<Fixed("You are a helpful assistant that answers questions based on the provided notes. \n"),
      Fixed("Answer the question using only the information from the sources below. "),
      Fixed("If you cannot find the answer in the provided sources, say so clearly.\n"),
      Fixed("Answer in Spanish always even if doc is in Spanish.\n")>>

CreateRagPrompt(q, ns) ==
    RagInstructions
        \o <<Fixed("Question: "), Given(<<q>>), Fixed("\n\nSources:")>>
        \o RagContext(ns)
        \o <<Fixed("\n\nAnswer based on the sources above:")>>

\* one note's block of create_summarization_prompt's context
SummaryBlock(i, note) ==
    <<Fixed("\n\n--- Source "), Given(<<DigitOf(i)>>), Fixed(": "), Given(note.file),
      Fixed(" ---\n")>>
        \o (IF HasHeading(note)
            THEN <<Fixed("Section: "), Given(note.heading), Fixed("\n")>>
            ELSE <<>>)
        \o <<Given(note.content), Fixed("\n(Relevance Score: "),
             Given(Format2f(note.similarity)), Fixed(")")>>

RECURSIVE SummaryContext(_)
SummaryContext(ns) ==
    IF ns = <<>> THEN <<>>
    ELSE SummaryContext(SubSeq(ns, 1, Len(ns) - 1))
             \o SummaryBlock(Len(ns), ns[Len(ns)])

SummaryInstructions ==
    <<Fixed("Keep it concise - just 2-3 sentences highlighting the key points.\n\n")>>

CreateSummarizationPrompt(q, ns) ==
    <<Fixed("Based on the provided sources, give a brief overview for: \""),
      Given(<<q>>), Fixed("\"\n\n")>>
        \o SummaryInstructions
        \o <<Fixed("SOURCES:")>>
        \o SummaryContext(ns)
        \o <<Fixed("\n\nOVERVIEW:")>>

\* ranked results as the searches hand them over: chunk records with a
\* similarity, some with a section heading
RankedNotes ==
    { WithSimilarity([file |-> <<"a">> \o MdExt, content |-> <<"a">>], 45),
      WithSimilarity([file |-> <<"a">> \o MdExt, content |-> <<"a">>], 0),
      WithSimilarity([file |-> <<"c">> \o TxtExt, content |-> <<".">>,
                      heading |-> <<"H">>], 20),
      WithSimilarity([file |-> <<"c">> \o TxtExt, content |-> <<".">>,
                      heading |-> <<>>], 11) }

InitPrompt ==
    /\ IdleSession
    /\ IdleEntries
    /\ IdleSearch
    /\ IdleChunk
    /\ IdleLink
    /\ IdleExtract
    /\ IdleDaily
    /\ IdleOrganize
    /\ IdleLoad
    /\ IdleEmbed
    /\ question \in Queries
    /\ relevantNotes \in SeqsUpTo(RankedNotes, MaxRanked)
    /\ prompt = <<>>
    /\ promptKind = "none"

RagPrompt ==
    /\ promptKind = "none"
    /\ prompt' = CreateRagPrompt(question, relevantNotes)
    /\ promptKind' = "rag"
    /\ UNCHANGED <<question, relevantNotes>>

SummarizationPrompt ==
    /\ promptKind = "none"
    /\ prompt' = CreateSummarizationPrompt(question, relevantNotes)
    /\ promptKind' = "summary"
    /\ UNCHANGED <<question, relevantNotes>>

PromptStep ==
    \/ RagPrompt
    \/ SummarizationPrompt

NextPrompt ==
    PromptStep /\ UNCHANGED <<searchVars, chunkVars, linkVars, extractVars,
                              dailyVars, organizeVars, loadVars, embedVars,
        entryVars,
        sessionVars>>

SpecPrompt == InitPrompt /\ [][NextPrompt]_vars

-----------------------------------------------------------------------------
(* render_daily_note_content and render_daily_entry_card (sources.py).  The *)
(* content is held as the sequence of its lines, content.split('\n').      *)

\* str.lstrip()
RECURSIVE LStrip(_)
LStrip(s) ==
    IF s = <<>> THEN <<>>
    ELSE IF IsSpace(s[1]) THEN LStrip(Tail(s))
    ELSE s

\* str.replace(pat, ''): every occurrence is removed, leftmost first
RECURSIVE Removed(_, _)
Removed(s, pat) ==
    IF s = <<>> THEN <<>>
    ELSE IF StartsWith(s, pat) THEN Removed(SubSeq(s, Len(pat) + 1, Len(s)), pat)
    ELSE <<s[1]>> \o Removed(Tail(s), pat)

\* the length of the \d{1,2} group with which ^(\d{1,2}:\d{2})\s+(.*)$
\* matches the line, 0 when it does not match
TimeDigits(line) ==
    IF \E n \in 1..2 :
           /\ Len(line) >= n + 4
           /\ \A i \in 1..n : line[i] \in Digits
           /\ line[n + 1] = ":"
           /\ line[n + 2] \in Digits
           /\ line[n + 3] \in Digits
           /\ IsSpace(line[n + 4])
    THEN CHOOSE n \in 1..2 :
           /\ Len(line) >= n + 4
           /\ \A i \in 1..n : line[i] \in Digits
           /\ line[n + 1] = ":"
           /\ line[n + 2] \in Digits
           /\ line[n + 3] \in Digits
           /\ IsSpace(line[n + 4])
    ELSE 0

\* time_match is not None
IsTimeLine(line) == TimeDigits(line) > 0

\* time_match.group(1)
TimeOf(line) == SubSeq(line, 1, TimeDigits(line) + 3)

\* time_match.group(2): what follows the run of whitespace
DescriptionOf(line) == LStrip(SubSeq(line, TimeDigits(line) + 4, Len(line)))

StatusKey == <<"s", "t", "a", "t", "u", "s", ":", ":">>

AreaKey == <<"a", "r", "e", "a", ":", ":">>

DateKey == <<"d", "a", "t", "e", ":", ":">>

SeparatorLine == <<"-", "-", "-">>

\* current_entry = {}
NoEntry == <<>>

\* the entry a timestamp line starts
NewEntry(line, original) ==
    [time |-> TimeOf(line),
     description |-> DescriptionOf(line),
     status |-> <<>>,
     area |-> <<>>,
     date |-> <<>>,
     wikilinks |-> <<>>,
     content_lines |-> <<>>,
     raw_lines |-> <<original>>]

\* the wikilinks a content line adds to its entry
LineWikilinks(line) ==
    IF IsSubstr(<<"[", "[">>, line) /\ IsSubstr(<<"]", "]">>, line)
    THEN ExtractWikilinksResult(line)
    ELSE <<>>

\* the entry after a line that is neither blank, heading, separator nor
\* timestamp was processed for it
WithLine(entry, line, original) ==
    IF StartsWith(line, StatusKey)
    THEN [entry EXCEPT !.raw_lines = Append(@, original),
                       !.status = Strip(Removed(line, StatusKey))]
    ELSE IF StartsWith(line, AreaKey)
    THEN [entry EXCEPT !.raw_lines = Append(@, original),
                       !.area = Strip(Removed(line, AreaKey))]
    ELSE IF StartsWith(line, DateKey)
    THEN [entry EXCEPT !.raw_lines = Append(@, original),
                       !.date = Strip(Removed(line, DateKey))]
    ELSE [entry EXCEPT !.raw_lines = Append(@, original),
                       !.content_lines = Append(@, original),
                       !.wikilinks = @ \o LineWikilinks(line)]

\* render_daily_entry_card(current_entry, notes, source_file, entry_count)
Card(entry, count) == [entry |-> entry, entry_count |-> count]

\* the loop's variables after the lines were processed
RECURSIVE EntryLoop(_, _, _, _, _)
EntryLoop(lines, current, count, inSeparator, out) ==
    IF lines = <<>>
    THEN [current |-> current, entry_count |-> count, cards |-> out]
    ELSE IF Strip(Head(lines)) = <<>> \/ StartsWith(Strip(Head(lines)), <<"#">>)
    THEN EntryLoop(Tail(lines), current, count, inSeparator, out)
    ELSE IF Strip(Head(lines)) = SeparatorLine
    THEN IF current # NoEntry
         THEN EntryLoop(Tail(lines), NoEntry, count + 1, TRUE,
                        Append(out, Card(current, count)))
         ELSE EntryLoop(Tail(lines), current, count, TRUE, out)
    ELSE IF IsTimeLine(Strip(Head(lines)))
    THEN IF current # NoEntry
         THEN EntryLoop(Tail(lines), NewEntry(Strip(Head(lines)), Head(lines)),
                        count + 1, FALSE, Append(out, Card(current, count)))
         ELSE EntryLoop(Tail(lines), NewEntry(Strip(Head(lines)), Head(lines)),
                        count, FALSE, out)
    ELSE IF current # NoEntry /\ ~inSeparator
    THEN EntryLoop(Tail(lines),
                   WithLine(current, Strip(Head(lines)), Head(lines)),
                   count, inSeparator, out)
    ELSE EntryLoop(Tail(lines), current, count, inSeparator, out)

\* the cards render_daily_note_content renders, the last entry included
DailyCards(lines) ==
    IF EntryLoop(lines, NoEntry, 0, FALSE, <<>>).current # NoEntry
    THEN Append(EntryLoop(lines, NoEntry, 0, FALSE, <<>>).cards,
                Card(EntryLoop(lines, NoEntry, 0, FALSE, <<>>).current,
                     EntryLoop(lines, NoEntry, 0, FALSE, <<>>).entry_count))
    ELSE EntryLoop(lines, NoEntry, 0, FALSE, <<>>).cards

\* '\n'.join(content_lines)
RECURSIVE JoinLines(_)
JoinLines(ls) ==
    IF ls = <<>> THEN <<>>
    ELSE IF Len(ls) = 1 THEN ls[1]
    ELSE ls[1] \o <<"\n">> \o JoinLines(Tail(ls))

\* entry_context
EntryContext(entry, sourceFile) ==
    [time |-> entry.time,
     description |-> entry.description,
     status |-> entry.status,
     area |-> entry.area,
     date |-> entry.date,
     content |-> JoinLines(entry.content_lines),
     source_file |-> sourceFile]

\* what a click on the button of a card's wikilink i stores in the session
DailyClick(entry, i, sourceFile) ==
    [selected_wikilink |-> entry.wikilinks[i],
     wikilink_context |-> EntryContext(entry, sourceFile)]

\* the wikilinks of a card that get a button: resolve_wikilink found a file
Clickable(entry, ns) ==
    {i \in 1..Len(entry.wikilinks) :
        ResolveWikilinkResult(entry.wikilinks[i], ns).tag = "path"}

\* the lines daily notes are made of
DailyLines ==
    { <<>>,
      <<"#", "h">>,
      <<"-", "-", "-">>,
      <<"9", ":", "0", "5", " ", "d">>,
      <<"9", ":", "0", "5", " ", "[", "[", "a", "]", "]">>,
      <<"s", "t", "a", "t", "u", "s", ":", ":", " ", "s">>,
      <<"a", "r", "e", "a", ":", ":", " ", "[", "[", "a", "]", "]">>,
      <<"[", "[", "a", "]", "]">>,
      <<"[", "[", "b", "]", "]">> }

\* the daily note shown and the chunk records its links are resolved against
DailyFile == <<"d", "a", "i", "l", "y", "/", "x", ".", "m", "d">>

ViewerNotes ==
    << [file |-> DailyFile, metadata |-> NoMetadata],
       [file |-> <<"a">> \o MdExt, metadata |-> NoMetadata],
       [file |-> <<"c">> \o TxtExt, metadata |-> NoMetadata] >>

InitEntries ==
    /\ IdleSession
    /\ IdleSearch
    /\ IdleChunk
    /\ IdleLink
    /\ IdleExtract
    /\ IdleDaily
    /\ IdleOrganize
    /\ IdleLoad
    /\ IdleEmbed
    /\ IdlePrompt
    /\ dailyContent \in SeqsUpTo(DailyLines, MaxDailyLines)
    /\ cards = <<>>
    /\ rendered = FALSE

\* the content viewer renders the daily note
RenderDailyNoteContent ==
    /\ ~rendered
    /\ cards' = DailyCards(dailyContent)
    /\ rendered' = TRUE
    /\ UNCHANGED dailyContent

\* the script runs again and the viewer is drawn anew
ClearViewer ==
    /\ rendered
    /\ cards' = <<>>
    /\ rendered' = FALSE
    /\ UNCHANGED dailyContent

EntriesStep ==
    \/ RenderDailyNoteContent
    \/ ClearViewer

NextEntries ==
    EntriesStep /\ UNCHANGED <<searchVars, chunkVars, linkVars, extractVars,
                               dailyVars, organizeVars, loadVars, embedVars,
                               promptVars,
        sessionVars>>

SpecEntries == InitEntries /\ [][NextEntries]_vars

-----------------------------------------------------------------------------
(* The session state of the sources tab (sources.py): the file selected in  *)
(* the content viewer, the wikilink shown in the linked viewer and the      *)
(* daily entry kept as its context.                                         *)

\* key in st.session_state
InSession(key) == key \in DOMAIN session

\* st.session_state.key = value
SessionWith(s, key, value) ==
    [k \in DOMAIN s \cup {key} |-> IF k = key THEN value ELSE s[k]]

\* del st.session_state.key
SessionWithout(s, key) == [k \in DOMAIN s \ {key} |-> s[k]]

\* the click on a link of regular content
RegularClick(s, link) == SessionWith(s, "selected_wikilink", link)

\* read_full_file_content, as lines: the daily note, a note that links to
\* c.txt and to the daily note, and a text file without links
FileLines(f) ==
    IF f = DailyFile THEN dailyContent
    ELSE IF f = <<"a">> \o MdExt
    THEN << <<"[", "[", "c", "]", "]">>, <<"[", "[", "x", "]", "]">> >>
    ELSE << <<"t">> >>

\* the lines the viewer's daily notes are made of
ViewerLines ==
    { <<"9", ":", "0", "5", " ", "d">>,
      <<"[", "[", "a", "]", "]">>,
      <<"[", "[", "c", "]", "]">>,
      <<"-", "-", "-">> }

ViewerFiles == {ViewerNotes[i].file : i \in 1..Len(ViewerNotes)}

\* the left panel: a source is selected
SelectSource(f) ==
    /\ session' = SessionWith(session, "selected_source", f)

\* the content viewer shows a daily note and the button of a wikilink of one
\* of its entries is clicked
ClickDailyWikilink(k, i) ==
    /\ InSession("selected_source")
    /\ IsDailyNote(session["selected_source"])
    /\ k \in 1..Len(DailyCards(FileLines(session["selected_source"])))
    /\ i \in Clickable(DailyCards(FileLines(session["selected_source"]))[k].entry,
                       ViewerNotes)
    /\ session' =
           SessionWith(
               SessionWith(session, "selected_wikilink",
                   DailyClick(DailyCards(FileLines(session["selected_source"]))[k].entry,
                              i, session["selected_source"]).selected_wikilink),
               "wikilink_context",
               DailyClick(DailyCards(FileLines(session["selected_source"]))[k].entry,
                          i, session["selected_source"]).wikilink_context)

\* the content viewer shows a regular file and the button of one of its
\* wikilinks is clicked
ClickRegularWikilink(i) ==
    /\ InSession("selected_source")
    /\ ~IsDailyNote(session["selected_source"])
    /\ i \in 1..Len(ExtractWikilinksResult(
                        JoinLines(FileLines(session["selected_source"]))))
    /\ ResolveWikilinkResult(
           ExtractWikilinksResult(
               JoinLines(FileLines(session["selected_source"])))[i],
           ViewerNotes).tag = "path"
    /\ session' =
           RegularClick(session,
               ExtractWikilinksResult(
                   JoinLines(FileLines(session["selected_source"])))[i])

\* the linked viewer's close button
CloseLinkedViewer ==
    /\ InSession("selected_wikilink")
    /\ session' = SessionWithout(SessionWithout(session, "selected_wikilink"),
                                 "wikilink_context")

\* the linked viewer shows the file of the selected wikilink and the arrow of
\* one of its first five links is clicked
FollowNestedLink(i) ==
    /\ InSession("selected_wikilink")
    /\ ResolveWikilinkResult(session["selected_wikilink"], ViewerNotes).tag
           = "path"
    /\ i \in 1..Len(SliceHead(
                 ExtractWikilinksResult(JoinLines(FileLines(
                     ResolveWikilinkResult(session["selected_wikilink"],
                                           ViewerNotes).file))), 5))
    /\ ResolveWikilinkResult(
           ExtractWikilinksResult(JoinLines(FileLines(
               ResolveWikilinkResult(session["selected_wikilink"],
                                     ViewerNotes).file)))[i],
           ViewerNotes).tag = "path"
    /\ session' =
           SessionWith(session, "selected_source",
               ResolveWikilinkResult(
                   ExtractWikilinksResult(JoinLines(FileLines(
                       ResolveWikilinkResult(session["selected_wikilink"],
                                             ViewerNotes).file)))[i],
                   ViewerNotes).file)

InitViewer ==
    /\ IdleSearch
    /\ IdleChunk
    /\ IdleLink
    /\ IdleExtract
    /\ IdleDaily
    /\ IdleOrganize
    /\ IdleLoad
    /\ IdleEmbed
    /\ IdlePrompt
    /\ dailyContent \in SeqsUpTo(ViewerLines, MaxDailyLines)
    /\ cards = <<>>
    /\ rendered = FALSE
    /\ session = <<>>

ViewerStep ==
    \/ \E f \in ViewerFiles : SelectSource(f)
    \/ \E k \in 1..MaxDailyLines, i \in 1..MaxDailyLines :
           ClickDailyWikilink(k, i)
    \/ \E i \in 1..2 : ClickRegularWikilink(i)
    \/ CloseLinkedViewer
    \/ \E i \in 1..2 : FollowNestedLink(i)

NextViewer ==
    ViewerStep /\ UNCHANGED <<searchVars, chunkVars, linkVars, extractVars,
                              dailyVars, organizeVars, loadVars, embedVars,
                              promptVars, entryVars>>

SpecViewer == InitViewer /\ [][NextViewer]_vars

-----------------------------------------------------------------------------
(* Claims about the searches, under SpecSearch *)

\* C1: no result returned by search_notes, and no entry of the sources
\* returned by search_and_summarize, has similarity <= 0.10.
C1_ThresholdLaw ==
    \A i \in 1..Len(results) : results[i].similarity > Threshold

\* A summarizing search returned sources while a chunk scoring exactly 0.10
\* was among its top_k candidates.
C1_Witness ==
    /\ op.name = "search_and_summarize"
    /\ results # <<>>
    /\ \E idx \in Range(TopIndices(op.query, op.top_k)) :
           Similarities(op.query, embeddings)[idx] = Threshold

IsPrefix(s, t) == Len(s) <= Len(t) /\ \A i \in 1..Len(s) : s[i] = t[i]

\* C2: for a fixed query and corpus, the results for top_k = k are a prefix
\* of the results for top_k = k + n, for all k >= 0 and n >= 0.
C2_RankingMonotonicity ==
    (op.name = "search_notes" /\ op.top_k >= 0) =>
        \A n \in 0..(MaxTopK + 1) :
            IsPrefix(results, SearchNotesResult(op.query, op.top_k + n))

\* search_notes returned a non-empty result that a larger top_k extends.
C2_Witness ==
    /\ op.name = "search_notes"
    /\ op.top_k >= 0
    /\ results # <<>>
    /\ Len(SearchNotesResult(op.query, op.top_k + 1)) > Len(results)

SameRecord(r, note) ==
    r.file = note.file /\ r.chunk_id = note.chunk_id /\ r.content = note.content

\* C3: for top_k >= 0 the results of search_notes are ordered by
\* non-increasing similarity, are at most top_k, are each a chunk record of
\* the corpus, and hold no record twice.
C3_SortedBoundedDistinct ==
    (op.name = "search_notes" /\ op.top_k >= 0) =>
        /\ Len(results) <= op.top_k
        /\ \A i \in 1..(Len(results) - 1) :
               results[i].similarity >= results[i + 1].similarity
        /\ \A i \in 1..Len(results) :
               \E j \in 1..Len(notes) : SameRecord(results[i], notes[j])
        /\ \A i, j \in 1..Len(results) :
               i # j => ~(results[i].file = results[j].file
                          /\ results[i].chunk_id = results[j].chunk_id)

\* search_notes returned top_k results of two different similarities while
\* more chunks were above the threshold.
C3_Witness ==
    /\ op.name = "search_notes"
    /\ op.top_k >= 2
    /\ Len(results) = op.top_k
    /\ results[1].similarity > results[2].similarity
    /\ Cardinality({i \in 1..Len(notes) :
           Similarities(op.query, embeddings)[i] > Threshold}) > op.top_k

\* C4: with an empty chunk-record collection a search returns an empty
\* result (empty sources) and calls neither the encoder nor the generator.
C4_EmptyCorpusLaw ==
    (Len(notes) = 0 /\ op.name # "none") =>
        /\ results = <<>>
        /\ encodeCalls = 0
        /\ generateCalls = 0

\* search_and_summarize ran on the empty corpus.
C4_Witness ==
    /\ Len(notes) = 0
    /\ op.name = "search_and_summarize"
    /\ summary = "no_notes"

\* the position in the corpus of the record a result was copied from
CorpusIndex(r) == CHOOSE j \in 1..Len(notes) : SameRecord(r, notes[j])

\* C24: among the results of search_notes that have equal similarity, the
\* one copied from the lower position of the corpus comes first.
C24_TiesLowerIndexFirst ==
    op.name = "search_notes" =>
        \A i, j \in 1..Len(results) :
            (i < j /\ results[i].similarity = results[j].similarity) =>
                CorpusIndex(results[i]) < CorpusIndex(results[j])

-----------------------------------------------------------------------------
(* Claims about chunk_text, under SpecChunk *)

\* C5: every chunk returned by chunk_text is non-empty after trimming, for
\* every text (empty and whitespace-only text included), so no chunk record
\* of load_notes has content that is empty after trimming.
C5_NoEmptyChunk ==
    loaded =>
        /\ \A i \in 1..Len(chunks) : Strip(chunks[i]) # <<>>
        /\ \A i \in 1..Len(records) : Strip(records[i].content) # <<>>

\* the non-empty trimmed segments of a text
Segments(T) == {Strip(p) : p \in Range(Paragraphs(T))} \ {<<>>}

\* C6: every chunk returned by chunk_text has length <= max_length, unless
\* the chunk is a single segment that alone is longer than max_length.
\* Stated for the texts that have a segment: an all-blank text is returned
\* whole, which is C5's case.
C6_ChunkLengthCap ==
    (loaded /\ Segments(text) # {}) =>
        \A i \in 1..Len(chunks) :
            \/ Len(chunks[i]) <= maxLength
            \/ chunks[i] \in Segments(text) /\ Len(chunks[i]) > maxLength

\* the non-empty trimmed segments of a text, in document order
SegmentSeq(T) ==
    SelectSeq([i \in 1..Len(Paragraphs(T)) |-> Strip(Paragraphs(T)[i])],
              LAMBDA p : p # <<>>)

RECURSIVE JoinedByBlankLines(_)
JoinedByBlankLines(segs) ==
    IF segs = <<>> THEN <<>>
    ELSE IF Len(segs) = 1 THEN segs[1]
    ELSE segs[1] \o <<"\n", "\n">> \o JoinedByBlankLines(Tail(segs))

RECURSIVE ContainsInOrder(_, _)
\* the segments occur in the chunk one after the other, without overlap
ContainsInOrder(chunk, segs) ==
    IF segs = <<>> THEN TRUE
    ELSE \E i \in 1..(Len(chunk) - Len(segs[1]) + 1) :
             /\ SubSeq(chunk, i, i + Len(segs[1]) - 1) = segs[1]
             /\ ContainsInOrder(SubSeq(chunk, i + Len(segs[1]), Len(chunk)),
                                Tail(segs))

\* the offsets of the text at which a heading line begins
HeadingOffsets(T) == {s \in 0..Len(T) : HeadingAt(T, s)}

\* the positions of a chunk at which a segment begins with a heading mark
HeadingStarts(chunk) ==
    {i \in 1..Len(chunk) :
        /\ chunk[i] = "#"
        /\ i = 1 \/ (i > 2 /\ chunk[i - 1] = "\n" /\ chunk[i - 2] = "\n")}

BodyFits == Len(JoinedByBlankLines(SegmentSeq(text))) <= maxLength

\* C23: when the segments of the body, joined by blank lines, are at most
\* max_length characters long, chunk_text returns one chunk, which holds every
\* segment in document order with every heading at the start of a segment,
\* and the record built from it carries the header's title when there is one.
C23_FittingBodyIsOneChunk ==
    (loaded /\ BodyFits) =>
        /\ Len(chunks) = 1
        /\ ContainsInOrder(chunks[1], SegmentSeq(text))
        /\ Cardinality(HeadingStarts(chunks[1]))
               >= Cardinality(HeadingOffsets(text))
        /\ Len(records) = 1
        /\ records[1].content = chunks[1]
        /\ "title" \in DOMAIN header => records[1].title = header["title"]

\* a body of two segments, the second a heading, that fits, under a header
\* with a title
C23_Witness ==
    /\ loaded
    /\ BodyFits
    /\ Len(SegmentSeq(text)) = 2
    /\ HeadingOffsets(text) # {}
    /\ "title" \in DOMAIN header
    /\ chunks = <<JoinedByBlankLines(SegmentSeq(text))>>
    /\ records[1].title = StrValue(<<"B">>)

-----------------------------------------------------------------------------
(* Claims about resolve_wikilink, under SpecResolve *)

Resolved == resolution.tag # "pending"

\* record i's stem or metadata title equals the link text, ignoring case
ExactMatchAt(i) ==
    \/ Lower(Stem(notes[i].file)) = Lower(wikilink)
    \/ /\ "title" \in DOMAIN notes[i].metadata
       /\ notes[i].metadata["title"].type = "str"
       /\ Lower(notes[i].metadata["title"].val) = Lower(wikilink)

\* record i's stem contains the link text or is contained in it, ignoring case
PartialMatchAt(i) ==
    \/ IsSubstr(Lower(wikilink), Lower(Stem(notes[i].file)))
    \/ IsSubstr(Lower(Stem(notes[i].file)), Lower(wikilink))

FirstIndex(S) == CHOOSE i \in S : \A j \in S : i <= j

ExactMatches == {i \in 1..Len(notes) : ExactMatchAt(i)}

PartialMatches == {i \in 1..Len(notes) : PartialMatchAt(i)}

\* C7: if some record's stem or title equals the link text, resolve_wikilink
\* returns the file of the first such record in record order, also when an
\* earlier record matches by substring only.
C7_ExactFirst ==
    (Resolved /\ ExactMatches # {}) =>
        resolution = Found(notes[FirstIndex(ExactMatches)].file)

\* C8: when no record matches exactly, resolve_wikilink returns the file of
\* the first record in record order whose stem contains the link text or is
\* contained in it.
C8_PartialFirst ==
    (Resolved /\ ExactMatches = {} /\ PartialMatches # {}) =>
        resolution = Found(notes[FirstIndex(PartialMatches)].file)

\* C9: resolve_wikilink returns not-found exactly when no record matches
\* exactly or by substring, and a path it returns is the file of a record.
C9_NotFoundIffNoMatch ==
    Resolved =>
        /\ (resolution = NotFound) <=> (ExactMatches = {} /\ PartialMatches = {})
        /\ resolution.tag = "path" =>
               \E i \in 1..Len(notes) : notes[i].file = resolution.file

\* C28: resolve_wikilink ends with a file path or with not-found, whatever
\* the link text and the records, a record without a title or with a title
\* that is null or no string included; it never ends in an error.
C28_NeverEndsInError ==
    Resolved => resolution.tag \in {"path", "none"}

\* C30: when resolve_wikilink returns not-found for the selected wikilink,
\* the linked viewer finds no similar file to suggest.
C30_NotFoundNoSuggestion ==
    (Resolved /\ resolution = NotFound) =>
        SimilarFiles(wikilink, notes) = <<>>

\* not-found was returned on a corpus of three records
C30_Witness ==
    /\ Resolved
    /\ resolution = NotFound
    /\ Len(notes) = 3
    /\ SimilarFiles(wikilink, notes) = <<>>

-----------------------------------------------------------------------------
(* Claims about extract_wikilinks, under SpecExtract *)

\* "[[" at offset i
OpensAt(T, i) == i + 2 <= Len(T) /\ T[i + 1] = "[" /\ T[i + 2] = "["

\* "]]" at offset j
ClosesAt(T, j) == j + 2 <= Len(T) /\ T[j + 1] = "]" /\ T[j + 2] = "]"

RECURSIVE TextsBetween(_, _)
\* the text between each "[[" and the first "]]" after it, from offset s on
TextsBetween(T, s) ==
    LET opens == {i \in s..Len(T) : OpensAt(T, i)}
    IN IF opens = {} THEN <<>>
       ELSE LET i == CHOOSE x \in opens : \A y \in opens : x <= y
                closes == {j \in (i + 2)..Len(T) : ClosesAt(T, j)}
            IN IF closes = {} THEN <<>>
               ELSE LET j == CHOOSE x \in closes : \A y \in closes : x <= y
                    IN <<SubSeq(T, i + 3, j)>> \o TextsBetween(T, j + 2)

\* C10 as stated: extract_wikilinks returns, in order and with duplicates,
\* exactly the text between each "[[" and its closing "]]".
C10_TextBetweenBrackets ==
    extracted => wikilinks = TextsBetween(content, 0)

\* the occurrences <<offset, length>> of a link: "[[", then a non-empty text
\* without "]", then "]]"
Occurrences(T) ==
    {o \in (0..Len(T)) \X (1..Len(T)) :
        /\ OpensAt(T, o[1])
        /\ ClosesAt(T, o[1] + o[2] + 2)
        /\ \A j \in (o[1] + 3)..(o[1] + o[2] + 2) : T[j] # "]"}

\* o starts inside the occurrence c
Inside(o, c) == c[1] < o[1] /\ o[1] < c[1] + c[2] + 4

\* C10 as amended: extract_wikilinks returns, in order of occurrence and
\* keeping duplicates, the text between "[[" and the "]]" after it, verbatim,
\* for the occurrences whose text is non-empty and holds no "]", leftmost
\* first and none starting inside an earlier one.
C10_ExtractsLinkTexts ==
    extracted =>
        \E C \in SUBSET Occurrences(content) :
            /\ \A o \in Occurrences(content) :
                   o \in C <=> ~\E c \in C : Inside(o, c)
            /\ Len(wikilinks) = Cardinality(C)
            /\ \E f \in [1..Len(wikilinks) -> C] :
                   /\ \A k \in 1..(Len(wikilinks) - 1) : f[k][1] < f[k + 1][1]
                   /\ \A k \in 1..Len(wikilinks) :
                          wikilinks[k] =
                              SubSeq(content, f[k][1] + 3, f[k][1] + f[k][2] + 2)

\* two equal links and one with a leading blank and a capital were extracted
C10_Witness ==
    /\ extracted
    /\ wikilinks = << <<"b">>, <<"b">>, <<" ", "A">> >>

-----------------------------------------------------------------------------
(* Claims about is_daily_note, under SpecDaily *)

\* the components of a path, the file name last
RECURSIVE PathSegments(_)
PathSegments(p) ==
    IF \A i \in 1..Len(p) : p[i] # "/" THEN <<p>>
    ELSE LET i == CHOOSE k \in 1..Len(p) :
                      p[k] = "/" /\ \A j \in 1..(k - 1) : p[j] # "/"
         IN <<SubSeq(p, 1, i - 1)>> \o PathSegments(SubSeq(p, i + 1, Len(p)))

\* a directory of the path is named daily
HasDailySegment(p) ==
    LET segs == PathSegments(p)
    IN \E i \in 1..(Len(segs) - 1) : segs[i] = <<"d", "a", "i", "l", "y">>

\* the file name is exactly YYYY-MM-DD.md
IsDateName(p) ==
    LET name == PathName(p)
    IN Len(name) = Len(DatePattern) /\ PatternAt(name, 0)

\* C11: is_daily_note returns true exactly when a directory of the path is
\* named daily or the file name is exactly YYYY-MM-DD.md, and false for every
\* other path.
C11_DailyIffSegmentOrDateName ==
    dailyVerdict # "pending" =>
        (dailyVerdict = "daily" <=> (HasDailySegment(path) \/ IsDateName(path)))

-----------------------------------------------------------------------------
(* Claims about organize_sources_by_type, under SpecOrganize *)

SourceTypes == {"daily", "markdown", "text", "other"}

DistinctFiles(ns) == {ns[i].file : i \in 1..Len(ns)}

\* the positions of category type that hold an entry for file f
EntriesFor(srcs, type, f) == {i \in 1..Len(srcs[type]) : srcs[type][i].file = f}

\* the category the claim gives file f
ClaimedType(f) ==
    CHOOSE type \in SourceTypes :
        /\ type = "daily" <=> IsDailyNote(f)
        /\ type = "markdown" <=>
               ~IsDailyNote(f) /\ EndsWith(f, <<".", "m", "d">>)
        /\ type = "text" <=>
               /\ ~IsDailyNote(f)
               /\ ~EndsWith(f, <<".", "m", "d">>)
               /\ EndsWith(f, <<".", "t", "x", "t">>)

\* C12: organize_sources_by_type places every distinct file of the chunk
\* records exactly once, in the category of its kind (daily, else markdown,
\* else text, else other) and in no other; the entries of the four categories
\* together are as many as the distinct files.
C12_EachFileOnceInItsCategory ==
    organized =>
        /\ \A f \in DistinctFiles(notes) :
               \A type \in SourceTypes :
                   Cardinality(EntriesFor(sourcesByType, type, f)) =
                       IF type = ClaimedType(f) THEN 1 ELSE 0
        /\ Len(sourcesByType.daily) + Len(sourcesByType.markdown)
               + Len(sourcesByType.text) + Len(sourcesByType.other)
           = Cardinality(DistinctFiles(notes))

\* a file with several chunk records and a second file have been organized,
\* one as a daily note and one as other
C12_Witness ==
    /\ organized
    /\ Len(notes) > Cardinality(DistinctFiles(notes))
    /\ Len(sourcesByType.daily) = 1
    /\ Len(sourcesByType.other) = 1

-----------------------------------------------------------------------------
(* Claims about load_notes, under SpecLoad *)

\* the records of file f in ns, in the order of ns
RecordsOf(ns, f) == SelectSeq(ns, LAMBDA n : n.file = f)

ContentsOf(ns) == [i \in 1..Len(ns) |-> ns[i].content]

TimesIn(s, x) == Cardinality({i \in 1..Len(s) : s[i] = x})

\* the step ran the body of load_notes on the files as they are
LoadedFromDisk == served' = "computed" /\ sinceLoad' = "same"

\* C13: when load_notes runs and reading or parsing a file fails, the file
\* contributes no chunk record and is reported once, and every other file
\* present contributes all of its chunks and is not reported: the load goes
\* on past the failure.
C13_FailedFileSkippedOthersLoaded ==
    [][LoadedFromDisk =>
          \A f \in DOMAIN disk :
              /\ disk[f].status = "bad" =>
                     /\ RecordsOf(notes', f) = <<>>
                     /\ TimesIn(errors', f) = 1
              /\ disk[f].status = "ok" =>
                     /\ ContentsOf(RecordsOf(notes', f))
                            = ChunkText(disk[f].content, LoadMaxLength)
                     /\ TimesIn(errors', f) = 0
              /\ disk[f].status = "absent" =>
                     /\ RecordsOf(notes', f) = <<>>
                     /\ TimesIn(errors', f) = 0]_vars

\* a load met a failing file first and loaded the two files after it
C13_Witness ==
    /\ served = "computed"
    /\ sinceLoad = "same"
    /\ disk[<<"a">> \o MdExt].status = "bad"
    /\ listing[MdExt][1] = <<"a">> \o MdExt
    /\ disk[<<"b">> \o MdExt].status = "ok"
    /\ disk[<<"c">> \o TxtExt].status = "ok"
    /\ errors = << <<"a">> \o MdExt >>
    /\ Len(RecordsOf(notes, <<"b">> \o MdExt)) = 1
    /\ Len(RecordsOf(notes, <<"c">> \o TxtExt)) = 2

\* C14: in the collection load_notes returns, no two records share file and
\* chunk index, and the records of one file carry the indices 0..n-1 in
\* increasing order, record i holding the i-th chunk chunk_text returned for
\* the file.
C14_ChunkIndexUniqueAndOrdered ==
    [][LoadedFromDisk =>
          /\ \A i, j \in 1..Len(notes') :
                 (/\ notes'[i].file = notes'[j].file
                  /\ notes'[i].chunk_id = notes'[j].chunk_id) => i = j
          /\ \A f \in DOMAIN disk :
                 LET rs == RecordsOf(notes', f)
                 IN /\ \A i \in 1..Len(rs) : rs[i].chunk_id = i - 1
                    /\ disk[f].status = "ok" =>
                           ContentsOf(rs)
                               = ChunkText(disk[f].content, LoadMaxLength)]_vars

\* a load returned the records of three files, two of them with two chunks
C14_Witness ==
    /\ served = "computed"
    /\ sinceLoad = "same"
    /\ Len(notes) = 5
    /\ Cardinality({notes[i].file : i \in 1..Len(notes)}) = 3
    /\ \E i \in 1..Len(notes) : notes[i].chunk_id = 1

\* C16: loading the same folder twice with no change to the files in between
\* yields identical chunk-record collections.
C16_ReloadIdempotent ==
    [][(sinceLoad = "same" /\ sinceLoad' = "same") => notes' = notes]_vars

\* C21: the load cache is keyed on the folder and on its files: a load with
\* folder and files unchanged that is answered from the cache returns the
\* cached records, and a load that follows a change of a file runs the body
\* of load_notes and returns the records of the files as they are now.
C21_CacheKeyedOnFiles ==
    [][/\ (sinceLoad = "same" /\ sinceLoad' = "same" /\ served' = "cached") =>
              /\ loadCache' = loadCache
              /\ notes' = loadCache.value.notes
       /\ (sinceLoad = "changed" /\ sinceLoad' = "same") =>
              /\ served' = "computed"
              /\ notes' = LoadNotesResult(disk', listing').notes]_vars

-----------------------------------------------------------------------------
(* Claims about the corpus handed to the searches, under SpecApp *)

\* C15: whatever loads, file changes and cache clears came before, a search
\* runs on a matrix and a chunk-record collection of equal length, row i of
\* the matrix being the encoding of the content of record i.
C15_RowsEncodeRecords ==
    op.name # "none" =>
        /\ Len(embeddings) = Len(notes)
        /\ \A i \in 1..Len(notes) : embeddings[i] = Encode(notes[i].content)

\* a search runs on a pair served from the caches after a file changed
C15_Witness ==
    /\ op.name # "none"
    /\ sinceLoad = "same"
    /\ served = "cached"
    /\ Len(notes) > 1
    /\ notes # LoadNotesResult(disk, listing).notes

-----------------------------------------------------------------------------
(* Claims about generation and the two search modes, under SpecSearch *)

\* C17: when the generator call of a chat turn or of search_and_summarize
\* fails, the request ends with the text of the error in place of the answer,
\* raises nothing, and has called the generator exactly once.
C17_GeneratorFailureBecomesText ==
    op.generator = "failed" =>
        /\ op.name \in {"chat_turn", "search_and_summarize"}
        /\ summary = "error"
        /\ generateCalls = 1

\* a chat turn found sources and its generator call failed
C17_Witness ==
    /\ op.name = "chat_turn"
    /\ op.generator = "failed"
    /\ results # <<>>

\* none of the rows retrieved for the request is above the threshold
NoSurvivor(q, k) ==
    \A idx \in Range(TopIndices(q, k)) :
        Similarities(q, embeddings)[idx] <= Threshold

\* C18: when no retrieved chunk is above the threshold, search_and_summarize
\* ends with the no-relevant-information outcome and a chat turn with the
\* fixed not-found message, both with empty sources and without a generator
\* call.
C18_NoSurvivorNoGeneration ==
    (/\ op.name \in {"chat_turn", "search_and_summarize"}
     /\ notes # <<>>
     /\ NoSurvivor(op.query, op.top_k)) =>
        /\ results = <<>>
        /\ generateCalls = 0
        /\ op.generator = "idle"
        /\ summary = IF op.name = "chat_turn" THEN "not_found"
                     ELSE "no_relevant"

\* a chat turn retrieved rows and none of them was above the threshold
C18_Witness ==
    /\ op.name = "chat_turn"
    /\ TopIndices(op.query, op.top_k) # <<>>
    /\ NoSurvivor(op.query, op.top_k)

\* C19: on a corpus that is not empty the sources of search_and_summarize
\* are the results search_notes returns for the same query and top_k: the
\* same records in the same order with the same similarities.
C19_SourcesEqualSearchNotes ==
    (op.name = "search_and_summarize" /\ notes # <<>>) =>
        results = SearchNotesResult(op.query, op.top_k)

\* search_and_summarize ran with its default top_k and kept some of the
\* records, not all
C19_Witness ==
    /\ op.name = "search_and_summarize"
    /\ op.top_k = SearchAndSummarizeTopK
    /\ Len(results) > 1
    /\ Len(results) < Len(notes)

\* C20: a search leaves the chunk records and the matrix as they were; the
\* similarity is on the copies returned and on no record of the corpus.
C20_SearchLeavesCorpusUnchanged ==
    [][op'.name # "none" =>
          /\ notes' = notes
          /\ embeddings' = embeddings
          /\ \A i \in 1..Len(notes') : "similarity" \notin DOMAIN notes'[i]]_vars

\* a search returned annotated records and the corpus has no similarity field
C20_Witness ==
    /\ op.name \in {"search_notes", "search_and_summarize"}
    /\ Len(results) > 1
    /\ \A i \in 1..Len(results) : "similarity" \in DOMAIN results[i]
    /\ \A i \in 1..Len(notes) : "similarity" \notin DOMAIN notes[i]

-----------------------------------------------------------------------------
(* Claims about the prompt builders, under SpecPrompt *)

\* the template's sentences that confine the answer to the sources given
RestrictionTexts ==
    {"Answer the question using only the information from the sources below. ",
     "Based on the provided sources, give a brief overview for: \""}

\* the template's sentences that tell the generator what to say when the
\* sources do not hold the answer
FallbackTexts ==
    {"If you cannot find the answer in the provided sources, say so clearly.\n"}

HasFixedText(p, texts) ==
    \E i \in 1..Len(p) : p[i].kind = "fixed" /\ p[i].text \in texts

\* C22: for a non-empty result list, the prompt of either builder carries
\* fixed text that confines the answer to the sources and fixed text that
\* states the fallback of saying the answer was not found in them.
C22_PromptsRestrictAndFallBack ==
    (promptKind # "none" /\ relevantNotes # <<>>) =>
        /\ HasFixedText(prompt, RestrictionTexts)
        /\ HasFixedText(prompt, FallbackTexts)

-----------------------------------------------------------------------------
(* Claims about the daily entries, under SpecEntries *)

IsBlankLine(line) == Strip(line) = <<>>

IsSeparatorLine(line) == Strip(line) = SeparatorLine

IsTimestampLine(line) == IsTimeLine(Strip(line))

\* the positions of the timestamp lines, in document order
TimestampPositions(lines) ==
    SelectSeq([i \in 1..Len(lines) |-> i],
              LAMBDA i : IsTimestampLine(lines[i]))

\* the position before which the entry opened at position t is closed: the
\* next timestamp or separator line, or the end of the note
EntryEnd(lines, t) ==
    IF \E j \in (t + 1)..Len(lines) :
           IsTimestampLine(lines[j]) \/ IsSeparatorLine(lines[j])
    THEN CHOOSE j \in (t + 1)..Len(lines) :
           /\ IsTimestampLine(lines[j]) \/ IsSeparatorLine(lines[j])
           /\ \A k \in (t + 1)..(j - 1) :
                  ~(IsTimestampLine(lines[k]) \/ IsSeparatorLine(lines[k]))
    ELSE Len(lines) + 1

\* the non-blank lines from the timestamp line at t up to the entry's end
EntryLines(lines, t) ==
    SelectSeq(SubSeq(lines, t, EntryEnd(lines, t) - 1),
              LAMBDA line : ~IsBlankLine(line))

\* C25: the cards are the entries of the timestamp lines, one each and in
\* document order, numbered 0, 1, 2, ...; the lines of an entry are the
\* non-blank lines from its timestamp line up to the next timestamp line,
\* separator line or the end, so a line before the first timestamp or
\* between a separator and the next timestamp is in no entry.
C25_EntriesAreTimestampSpans ==
    rendered =>
        /\ Len(cards) = Len(TimestampPositions(dailyContent))
        /\ \A k \in 1..Len(cards) :
               /\ cards[k].entry_count = k - 1
               /\ k <= Len(TimestampPositions(dailyContent)) =>
                      cards[k].entry.raw_lines =
                          EntryLines(dailyContent,
                                     TimestampPositions(dailyContent)[k])

\* the wikilinks found in the lines of an entry, line by line
RECURSIVE LinksIn(_)
LinksIn(lines) ==
    IF lines = <<>> THEN <<>>
    ELSE ExtractWikilinksResult(Head(lines)) \o LinksIn(Tail(lines))

\* C26: every wikilink found in a line of an entry (timestamp line,
\* annotation line or content line) is among the entry's wikilinks, and a
\* click on a wikilink of the entry stores that link with the entry's time,
\* description, status, area, date and text as its context.
C26_EntryLinksCarryContext ==
    rendered =>
        \A k \in 1..Len(cards) :
            /\ Range(LinksIn(cards[k].entry.raw_lines))
                   \subseteq Range(cards[k].entry.wikilinks)
            /\ \A i \in Clickable(cards[k].entry, ViewerNotes) :
                   /\ DailyClick(cards[k].entry, i, DailyFile).selected_wikilink
                          = cards[k].entry.wikilinks[i]
                   /\ DailyClick(cards[k].entry, i, DailyFile).wikilink_context
                          = [time |-> cards[k].entry.time,
                             description |-> cards[k].entry.description,
                             status |-> cards[k].entry.status,
                             area |-> cards[k].entry.area,
                             date |-> cards[k].entry.date,
                             content |->
                                 JoinLines(cards[k].entry.content_lines),
                             source_file |-> DailyFile]

-----------------------------------------------------------------------------
(* Claims about the session state of the sources tab, under SpecViewer *)

\* the wikilink selected in session state s is a wikilink of the entry that
\* s keeps as context
ContextFits(s) ==
    /\ "selected_wikilink" \in DOMAIN s
    /\ \E k \in 1..Len(DailyCards(FileLines(s["wikilink_context"].source_file))) :
           /\ EntryContext(
                  DailyCards(FileLines(s["wikilink_context"].source_file))[k].entry,
                  s["wikilink_context"].source_file) = s["wikilink_context"]
           /\ s["selected_wikilink"] \in
                  Range(DailyCards(
                      FileLines(s["wikilink_context"].source_file))[k].entry.wikilinks)

\* the step is a click on a link of the regular file the content viewer shows
RegularClickStep ==
    /\ InSession("selected_source")
    /\ ~IsDailyNote(session["selected_source"])
    /\ "selected_wikilink" \in DOMAIN session'
    /\ \/ ~InSession("selected_wikilink")
       \/ session'["selected_wikilink"] # session["selected_wikilink"]

\* C27: after every step, a context kept in the session state is the context
\* of an entry that holds the selected wikilink, and a click on a link of
\* regular content leaves no context of an earlier daily entry behind.
C27_ContextBelongsToSelectedLink ==
    [][/\ "wikilink_context" \in DOMAIN session' => ContextFits(session')
       /\ RegularClickStep => "wikilink_context" \notin DOMAIN session']_vars

-----------------------------------------------------------------------------
(* Claims about the number of results, under SpecSearch *)

\* the chunks of the corpus whose similarity to the query exceeds 0.10
AboveThresholdChunks(q) ==
    {i \in 1..Len(notes) : Similarities(q, embeddings)[i] > Threshold}

\* the ranking with the chunks at or below the threshold dropped first
RECURSIVE Kept(_, _)
Kept(idxs, sims) ==
    IF idxs = <<>> THEN <<>>
    ELSE IF sims[Head(idxs)] > Threshold
    THEN <<Head(idxs)>> \o Kept(Tail(idxs), sims)
    ELSE Kept(Tail(idxs), sims)

\* threshold first, truncation to top_k second
ThresholdThenTruncate(q, k) ==
    [i \in 1..Len(SliceHead(Kept(Ranked(sortOrder[q]),
                                 Similarities(q, embeddings)), k)) |->
        WithSimilarity(
            notes[SliceHead(Kept(Ranked(sortOrder[q]),
                                 Similarities(q, embeddings)), k)[i]],
            Similarities(q, embeddings)[
                SliceHead(Kept(Ranked(sortOrder[q]),
                               Similarities(q, embeddings)), k)[i]])]

\* C29: for top_k >= 0 search_notes, and search_and_summarize for its
\* sources, returns min(top_k, number of chunks above the threshold) results,
\* the same results as dropping the chunks at or below the threshold first
\* and truncating to top_k afterwards.
C29_CountIsMinOfTopKAndAbove ==
    (op.name \in {"search_notes", "search_and_summarize"} /\ op.top_k >= 0) =>
        /\ Len(results)
               = Min(op.top_k, Cardinality(AboveThresholdChunks(op.query)))
        /\ results = ThresholdThenTruncate(op.query, op.top_k)

\* top_k cut the results short of the chunks above the threshold, and a chunk
\* at or below the threshold was in the corpus
C29_Witness ==
    /\ op.name = "search_notes"
    /\ op.top_k >= 1
    /\ Len(results) = op.top_k
    /\ Cardinality(AboveThresholdChunks(op.query)) > op.top_k
    /\ Cardinality(AboveThresholdChunks(op.query)) < Len(notes)

====
